---- MODULE Spec2Model ----
(***************************************************************************)
(* Vertex attribute quantization codec of quantization-perf-webgl2:        *)
(* bit packing (quantize.ts), the angle-sign tangent codec                 *)
(* (tangentEncoding.ts), the tangent-frame quaternion codec (quantize.ts), *)
(* the mesh quantizers (quantize.ts), the attribute binding (gpu-mesh.ts)  *)
(* and the vertex shaders that decode the packed record                    *)
(* (shaders-quantized.ts).                                                 *)
(*                                                                         *)
(* Numbers.  JavaScript bit operators are modelled on naturals by what     *)
(* they do bit by bit; typed-array stores by the ToUint16 conversion.      *)
(* Real-valued quantities are either exact rationals (positions, UVs,      *)
(* octahedral coordinates, directions given as integer vectors) or         *)
(* fixed-point numbers with ONE units per 1.0 (the quaternion codec).      *)
(***************************************************************************)
EXTENDS Integers, Sequences, FiniteSets, TLC

VARIABLES
    pkPc,       \* bit packer harness: "in" | "stored" | "in8" | "stored8"
    pkIn,       \* the four field values handed to store4x12To3x16
    pkWords,    \* out: Uint16Array(3) written by store4x12To3x16
    pkHost,     \* out: vec4 written by load4x12From3x16 (or None)
    pkShader    \* q0..q3 extracted by the shader's unpack12bitQuaternion (or None)

VARIABLES
    agPc,       \* angle-sign codec harness: "in" | "encoded"
    agNormal,   \* normal handed to the encoder and to the decoders
    agTangent,  \* tangent handed to the encoder
    agSign,     \* tangentSign handed to the encoder
    agWord,     \* the 16-bit word encodeTangentAsAngle16 returned
    agExact,    \* result of decodeAngleAsTangent16 (or None)
    agPoly      \* result of decodeAngleAsTangentUsingPolynomialApproximation16

VARIABLES
    temps,      \* the module-level TempVars object of quantize.ts
    qtPool,     \* the (normal, tangent) frames the harness encodes
    qtBudget,   \* how many encode calls the harness makes
    qtCalls,    \* encode calls made so far
    qtN,        \* n of the latest encode call
    qtT,        \* t (vec4, t[3] the handedness) of the latest encode call
    qtBits,     \* storage width of the latest encode call: 8, 12 or 16
    qtWords,    \* the Uint16Array the latest encode call filled
    qtClamped,  \* whether the latest encode call took the zero-w clamp branch
    qtDec,      \* <<normal, tangent>> decoded from qtWords (or None)
    qtFirst     \* <<n, t, bits, words>> of the first encode call (or None)

VARIABLES
    mPc,            \* "call" | "loop" | "quantized" | "uploaded" | "bound"
    format,         \* QuantizationFormat: "angle16bits" | "quaternion12bits"
    numVertices,    \* arguments of quantizeMeshAngle16Bits and
    positions,      \*   quantizeMeshQuaternion12Bits: flat arrays, 3, 3, 4
    normals,        \*   and 2 numbers per vertex
    tangents,
    uvs,
    min,            \* the supplied bounding box, None for null
    max,
    positionMin,    \* the bounding box the quantizer uses and returns
    positionMax,
    compressedData, \* Uint16Array(numVertices * 8)
    qTangent12,     \* Uint16Array(numVertices * 3) of the quaternion quantizer
    loopI,          \* i of the quantizer's loop
    wroteAt,        \* per vertex quantized: the word indices each field went to
    glData,         \* the bytes of the ARRAY_BUFFER made from compressedData
    glAttribs,      \* the four vertex attribute pointers set by bind
    glUniforms,     \* <<uPositionMin, uPositionMax>> set by bind
    vsI,            \* vertices the vertex shader has run on
    vsOut,          \* per vertex: what the vertex shader decoded
    readAt          \* per vertex: the word indices each field was read from

VARIABLES
    trPc,       \* trigonometry harness: "in"
    trX,        \* the argument x handed to fastSin and fastCos
    trSin,      \* fastSin(x) (or None)
    trCos       \* fastCos(x) (or None)

VARIABLES
    ocPc,       \* octahedral normal harness: "in" | "stored"
    ocN,        \* the normal handed to the encoder (or None)
    ocWords,    \* the two 16-bit words of the encoded normal
    ocOut       \* what octDecode16 made of ocWords (or None)

VARIABLES
    dqQ,        \* the quaternion q handed to decodeQTangent (or None)
    dqPos,      \* <<normal, tangent>> of decodeQTangent(q) (or None)
    dqNeg       \* <<normal, tangent>> of decodeQTangent(-q) (or None)

VARIABLES
    tePc,         \* testTangentEncoding: "call" | "encoded" | "decoded" | "done"
    teNormal,     \* its arguments normal, tangent and originalSign
    teTangent,
    teSign,
    teEncoded,    \* encoded, line 162
    teDecoded,    \* what decodeTangentOriginal returned, line 165 (or None)
    teOptimized   \* what decodeTangentOptimized returned, line 166 (or None)

VARIABLES
    gmPc,        \* generateMesh: "call" | "waiting" (the promise was returned)
    gmShape,     \* its arguments: shape, resolution (as generateRoundedBox
    gmRes,       \*   gets it) and quantize
    gmQuantize,
    gmMobile,    \* isMobile of generateRoundedBox, line 476
    gmWorker,    \* per worker: "none" | "posted" | "errored" | "terminated"
    gmMesh,      \* the Mesh being assembled, or the one the promise holds
    gmFaceBox,   \* per face: the box its reply said its words are quantized on
    gmWrote,     \* the slices written by TypedArray.set: [array, face, from, to]
    gmPromise    \* the promise generateMesh returned: "pending" |
                 \*   "resolved" | "rejected"

VARIABLES
    pmInFrame,     \* whether beginFrame was called and endFrame not yet
    pmExt,         \* this.timerQueryExt: whether the extension is available
    queryPool,     \* this.queryPool: [active, name, frameId] per query
    activeQuery,   \* this.activeQuery: an index into queryPool, 0 for null
    frameCount,    \* this.frameCount
    pmSaves,       \* saveMeasure calls made in the current frame
    glQuery,       \* GL: the query begun and not ended, 0 for none
    glPending,     \* GL: the queries begun whose result was not collected yet
    glErrors       \* GL: the calls that were not valid when they were made

VARIABLES
    params,        \* UIParams: shape, resolution, quantizationFormat, isPaused
    meshState,     \* MeshState of main(), lines 232-240
    builds,        \* the generateMesh promises still pending: [args, state]
    rafScheduled,  \* whether requestAnimationFrame(render) is outstanding
    drawn,         \* what the latest gl.drawElements drew (or None)
    thrown         \* the errors thrown so far

pkVars == <<pkPc, pkIn, pkWords, pkHost, pkShader>>
qtVars == <<temps, qtPool, qtBudget, qtCalls, qtN, qtT, qtBits, qtWords,
            qtClamped, qtDec, qtFirst>>
agVars == <<agPc, agNormal, agTangent, agSign, agWord, agExact, agPoly>>

qtRest == <<qtPool, qtBudget, qtCalls, qtN, qtT, qtBits, qtWords, qtClamped,
            qtDec, qtFirst>>
meshIn == <<format, numVertices, positions, normals, tangents, uvs, min, max>>
meshOut == <<positionMin, positionMax, compressedData, qTangent12, loopI,
             wroteAt>>
glVars == <<glData, glAttribs, glUniforms, vsI, vsOut, readAt>>
meshVars == <<mPc, meshIn, meshOut, glVars>>

trVars == <<trPc, trX, trSin, trCos>>
ocVars == <<ocPc, ocN, ocWords, ocOut>>
dqVars == <<dqQ, dqPos, dqNeg>>
teVars == <<tePc, teNormal, teTangent, teSign, teEncoded, teDecoded,
            teOptimized>>
gmVars == <<gmPc, gmShape, gmRes, gmQuantize, gmMobile, gmWorker, gmMesh,
            gmFaceBox, gmWrote, gmPromise>>
pmVars == <<pmInFrame, pmExt, queryPool, activeQuery, frameCount, pmSaves,
            glQuery, glPending, glErrors>>
appVars == <<params, meshState, builds, rafScheduled, drawn, thrown>>

vars == <<pkVars, agVars, qtVars, meshVars, trVars, ocVars, dqVars, teVars,
          gmVars, pmVars, appVars>>

notPk == <<agVars, qtVars, meshVars, trVars, ocVars, dqVars, teVars,
           gmVars, pmVars, appVars>>
notAg == <<pkVars, qtVars, meshVars, trVars, ocVars, dqVars, teVars,
           gmVars, pmVars, appVars>>
notQt == <<pkVars, agVars, meshVars, trVars, ocVars, dqVars, teVars,
           gmVars, pmVars, appVars>>
notMesh == <<pkVars, agVars, qtRest, trVars, ocVars, dqVars, teVars,
             gmVars, pmVars, appVars>>
notTr == <<pkVars, agVars, qtVars, meshVars, ocVars, dqVars, teVars,
           gmVars, pmVars, appVars>>
notOc == <<pkVars, agVars, qtVars, meshVars, trVars, dqVars, teVars,
           gmVars, pmVars, appVars>>
notDq == <<pkVars, agVars, qtRest, meshVars, trVars, ocVars, teVars,
           gmVars, pmVars, appVars>>
notTe == <<pkVars, agVars, qtVars, meshVars, trVars, ocVars, dqVars,
           gmVars, pmVars, appVars>>
notGm == <<pkVars, agVars, qtVars, meshVars, trVars, ocVars, dqVars,
           teVars, pmVars, appVars>>
notPm == <<pkVars, agVars, qtVars, meshVars, trVars, ocVars, dqVars,
           teVars, gmVars, appVars>>
notApp == <<pkVars, agVars, qtVars, meshVars, trVars, ocVars, dqVars,
            teVars, gmVars, pmVars>>

\* the value of a vector or array variable that holds nothing yet
None == <<>>

(***************************************************************************)
(* Integer helpers                                                         *)
(***************************************************************************)
Abs(x) == IF x < 0 THEN -x ELSE x
Max(a, b) == IF a >= b THEN a ELSE b
Min(a, b) == IF a <= b THEN a ELSE b
Sgn(x) == IF x > 0 THEN 1 ELSE IF x < 0 THEN -1 ELSE 0

RECURSIVE Pow2(_)
Pow2(n) == IF n = 0 THEN 1 ELSE 2 * Pow2(n - 1)

\* a & b on naturals
RECURSIVE BitAnd(_, _)
BitAnd(a, b) ==
    IF a = 0 \/ b = 0 THEN 0
    ELSE (a % 2) * (b % 2) + 2 * BitAnd(a \div 2, b \div 2)

\* a | b on naturals
RECURSIVE BitOr(_, _)
BitOr(a, b) ==
    IF a = 0 THEN b
    ELSE IF b = 0 THEN a
    ELSE Max(a % 2, b % 2) + 2 * BitOr(a \div 2, b \div 2)

\* a << n and a >> n on naturals below 2^31
ShiftL(a, n) == a * Pow2(n)
ShiftR(a, n) == a \div Pow2(n)

\* the conversion a Uint16Array store applies to an integer
ToUint16(x) == x % 65536

(***************************************************************************)
(* BitPacker: quantize.ts store4x12To3x16 / load4x12From3x16 and the       *)
(* shader's unpack12bitQuaternion                                          *)
(***************************************************************************)
store4x12To3x16_swapped(a, b, c, d) ==
    LET first  == BitOr(BitAnd(a, 4095), ShiftL(BitAnd(b, 15), 12))
        second == BitOr(BitAnd(ShiftR(b, 4), 255), ShiftL(BitAnd(c, 255), 8))
        third  == BitOr(BitAnd(ShiftR(c, 8), 15), ShiftL(BitAnd(d, 255), 4))
    IN  <<ToUint16(first), ToUint16(second), ToUint16(third)>>

store4x12To3x16(a, b, c, d) ==
    LET first  == BitOr(BitAnd(a, 4095), ShiftL(BitAnd(b, 15), 12))
        second == BitOr(BitAnd(ShiftR(b, 4), 255), ShiftL(BitAnd(c, 255), 8))
        third  == BitOr(BitAnd(ShiftR(c, 8), 15), ShiftL(BitAnd(d, 4095), 4))
    IN  <<ToUint16(first), ToUint16(second), ToUint16(third)>>

load4x12From3x16(a, b, c) ==
    << BitAnd(a, 4095),
       BitOr(BitAnd(ShiftR(a, 12), 15), ShiftL(BitAnd(b, 255), 4)),
       BitOr(BitAnd(ShiftR(b, 8), 255), ShiftL(BitAnd(c, 15), 8)),
       BitAnd(ShiftR(c, 4), 4095) >>

\* the layout of the shader's unpack12bitOverlap, a plausible slip for
\* unpack12bitQuaternion
unpack12bitQuaternion_overlap(a, b, c) ==
    << BitAnd(a, 4095),
       BitOr(BitAnd(ShiftR(a, 12), 15), ShiftL(BitAnd(b, 255), 4)),
       BitOr(BitAnd(ShiftR(b, 8), 15), ShiftL(BitAnd(c, 255), 4)),
       ShiftR(c, 8) >>

\* the four unsigned integers q0..q3 the shader extracts before it converts
\* them to floats
unpack12bitQuaternion(a, b, c) ==
    << BitAnd(a, 4095),
       BitOr(BitAnd(ShiftR(a, 12), 15), ShiftL(BitAnd(b, 255), 4)),
       BitOr(BitAnd(ShiftR(b, 8), 255), ShiftL(BitAnd(c, 15), 8)),
       BitAnd(ShiftR(c, 4), 4095) >>

\* store4x8To2x16 without its masks
store4x8To2x16_unmasked(a, b, c, d) ==
    LET first  == BitOr(a, ShiftL(b, 8))
        second == BitOr(c, ShiftL(d, 8))
    IN  <<ToUint16(first), ToUint16(second)>>

store4x8To2x16(a, b, c, d) ==
    LET first  == BitOr(BitAnd(a, 255), ShiftL(BitAnd(b, 255), 8))
        second == BitOr(BitAnd(c, 255), ShiftL(BitAnd(d, 255), 8))
    IN  <<ToUint16(first), ToUint16(second)>>

load4x8From2x16(a, b) ==
    << BitAnd(a, 255), BitAnd(ShiftR(a, 8), 255),
       BitAnd(b, 255), BitAnd(ShiftR(b, 8), 255) >>

\* sample values of a bits-wide field: 0, all ones, every single bit
Walk(bits) == {0, Pow2(bits) - 1} \cup {Pow2(k) : k \in 0..(bits - 1)}

Field12 == Walk(12)
Word16 == Walk(16)

\* non-negative integers wider than a 12-bit field
Wide == {4096, 65535, 1048575}

\* arguments of store4x12To3x16 and of store4x8To2x16
Args12 == Field12 \cup Wide
Args8 == Walk(8) \cup {256} \cup Wide

PackInit ==
    /\ pkHost = None
    /\ pkShader = None
    /\ \/ /\ pkPc = "in"
          /\ pkIn \in Args12 \X Args12 \X Args12 \X Args12
          /\ pkWords = <<0, 0, 0>>
       \/ /\ pkPc = "in8"
          /\ pkIn \in Args8 \X Args8 \X Args8 \X Args8
          /\ pkWords = <<0, 0>>
       \/ /\ pkPc = "stored"
          /\ pkIn = None
          /\ pkWords \in Word16 \X Word16 \X Word16

PackIdle ==
    /\ pkPc = "idle"
    /\ pkIn = None
    /\ pkWords = <<0, 0, 0>>
    /\ pkHost = None
    /\ pkShader = None

Store4x12 ==
    /\ pkPc = "in"
    /\ pkWords' = store4x12To3x16(pkIn[1], pkIn[2], pkIn[3], pkIn[4])
    /\ pkPc' = "stored"
    /\ UNCHANGED <<pkIn, pkHost, pkShader>>
    /\ UNCHANGED notPk

Load4x12 ==
    /\ pkPc = "stored"
    /\ pkHost = None
    /\ pkHost' = load4x12From3x16(pkWords[1], pkWords[2], pkWords[3])
    /\ UNCHANGED <<pkPc, pkIn, pkWords, pkShader>>
    /\ UNCHANGED notPk

Store4x8 ==
    /\ pkPc = "in8"
    /\ pkWords' = store4x8To2x16(pkIn[1], pkIn[2], pkIn[3], pkIn[4])
    /\ pkPc' = "stored8"
    /\ UNCHANGED <<pkIn, pkHost, pkShader>>
    /\ UNCHANGED notPk

Load4x8 ==
    /\ pkPc = "stored8"
    /\ pkHost = None
    /\ pkHost' = load4x8From2x16(pkWords[1], pkWords[2])
    /\ UNCHANGED <<pkPc, pkIn, pkWords, pkShader>>
    /\ UNCHANGED notPk

ShaderUnpack12 ==
    /\ pkPc = "stored"
    /\ pkShader = None
    /\ pkShader' = unpack12bitQuaternion(pkWords[1], pkWords[2], pkWords[3])
    /\ UNCHANGED <<pkPc, pkIn, pkWords, pkHost>>
    /\ UNCHANGED notPk

PackNext ==
    \/ Store4x12
    \/ Load4x12
    \/ Store4x8
    \/ Load4x8
    \/ ShaderUnpack12

(***************************************************************************)
(* Vectors.  A direction is an integer 3-vector; the unit vector the       *)
(* program holds is that vector normalized.                                *)
(***************************************************************************)
Cross(a, b) ==
    << a[2] * b[3] - a[3] * b[2],
       a[3] * b[1] - a[1] * b[3],
       a[1] * b[2] - a[2] * b[1] >>

Dot(a, b) == a[1] * b[1] + a[2] * b[2] + a[3] * b[3]

\* Math.round(n / d) for d > 0: the nearest integer, a tie going up
RoundHalfUp(n, d) == (2 * n + d) \div (2 * d)

(***************************************************************************)
(* Fixed-point reals: the integer v stands for v / ONE.  Products and      *)
(* quotients are computed in two halves so that no intermediate exceeds    *)
(* 31 bits, and are rounded to the nearest unit as floating point rounds   *)
(* to the nearest representable number.                                    *)
(***************************************************************************)
ONE == 1024 * 1024
HALF == ONE \div 2

\* <<hi, lo>> with a * b = hi * ONE + lo and 0 <= lo < ONE, for 0 <= a, b < 2^22
WMul(a, b) ==
    LET ah == a \div 2048
        al == a % 2048
        bh == b \div 2048
        bl == b % 2048
        mid == ah * bl + al * bh
        rest == (mid % 512) * 2048 + al * bl
    IN  << ah * bh * 4 + mid \div 512 + rest \div ONE, rest % ONE >>

\* <<hi, lo>> rounded to the nearest unit, negated when neg
Rounded(p, neg) ==
    IF neg THEN -(p[1] + (IF p[2] >= HALF THEN 1 ELSE 0))
    ELSE p[1] + (IF p[2] >= HALF THEN 1 ELSE 0)

\* a * b for fixed-point a, b
FMul(a, b) == Rounded(WMul(Abs(a), Abs(b)), (a < 0) # (b < 0))

\* a / b for fixed-point a, b with |a| < 2^21 and 0 < |b| <= 2^21
FDiv(a, b) ==
    LET n  == Abs(a) * 1024
        d  == Abs(b)
        q1 == n \div d
        r1 == (n % d) * 1024
        m  == q1 * 1024 + (r1 + d \div 2) \div d
    IN  IF (a < 0) # (b < 0) THEN -m ELSE m

\* whether <<hi, lo>> = hi * ONE + lo is at most a * ONE
AtMost(sq, a) == sq[1] < a \/ (sq[1] = a /\ sq[2] = 0)

Mid(lo, hi) == (lo + hi + 1) \div 2

\* the largest r in lo..hi with r * r <= a * ONE
RECURSIVE SqrtSearch(_, _, _)
SqrtSearch(a, lo, hi) ==
    IF lo = hi THEN lo
    ELSE IF AtMost(WMul(Mid(lo, hi), Mid(lo, hi)), a)
         THEN SqrtSearch(a, Mid(lo, hi), hi)
         ELSE SqrtSearch(a, lo, Mid(lo, hi) - 1)

\* Math.sqrt(a) for fixed-point 0 <= a <= 4
FSqrt(a) == SqrtSearch(a, 0, 2 * ONE)

\* gl-matrix vec3.cross, vec3.dot, vec3.scale, vec3.multiply, vec3.add on
\* fixed-point vectors (the first three components of a vec4 are used)
FCross(a, b) ==
    << FMul(a[2], b[3]) - FMul(a[3], b[2]),
       FMul(a[3], b[1]) - FMul(a[1], b[3]),
       FMul(a[1], b[2]) - FMul(a[2], b[1]) >>

FDot(a, b) == FMul(a[1], b[1]) + FMul(a[2], b[2]) + FMul(a[3], b[3])

FScale(a, k) == << FMul(a[1], k), FMul(a[2], k), FMul(a[3], k) >>

FMultiply(a, b) == << FMul(a[1], b[1]), FMul(a[2], b[2]), FMul(a[3], b[3]) >>

FAdd(a, b) == << a[1] + b[1], a[2] + b[2], a[3] + b[3] >>

\* gl-matrix quat.scale(out, a, -1)
QNegate(q) == << -q[1], -q[2], -q[3], -q[4] >>

\* gl-matrix quat.normalize: len = x^2+y^2+z^2+w^2; if (len > 0) len =
\* 1 / sqrt(len); out = a * len
QLen2(q) == FMul(q[1], q[1]) + FMul(q[2], q[2]) + FMul(q[3], q[3])
            + FMul(q[4], q[4])

InvSqrt(len) == IF len > 0 THEN FDiv(ONE, FSqrt(len)) ELSE len

QScale(q, k) == << FMul(q[1], k), FMul(q[2], k), FMul(q[3], k), FMul(q[4], k) >>

QNormalize(q) == QScale(q, InvSqrt(QLen2(q)))

\* element m[i] of a matrix, i counted from 0 as in the source
At(m, i) == m[i + 1]

\* out with out[i] = v, i counted from 0
Put(out, i, v) == [out EXCEPT ![i + 1] = v]

Trace(m) == At(m, 0) + At(m, 4) + At(m, 8)

\* the index of the largest diagonal element, as fromMat3 picks it
MaxDiag(m) ==
    LET i0 == IF At(m, 4) > At(m, 0) THEN 1 ELSE 0
    IN  IF At(m, 8) > At(m, i0 * 3 + i0) THEN 2 ELSE i0

\* fromMat3 when the trace is positive, fRoot = sqrt(trace + 1)
FromTrace(out, m, fRoot) ==
    LET r == FDiv(HALF, fRoot)
    IN  Put(Put(Put(Put(out, 3, FMul(HALF, fRoot)),
            0, FMul(At(m, 5) - At(m, 7), r)),
            1, FMul(At(m, 6) - At(m, 2), r)),
            2, FMul(At(m, 1) - At(m, 3), r))

\* sqrt(m[i*3+i] - m[j*3+j] - m[k*3+k] + 1) for j = i+1, k = i+2 (mod 3)
DiagRoot(m, i) ==
    FSqrt(At(m, i * 3 + i) - At(m, ((i + 1) % 3) * 4) - At(m, ((i + 2) % 3) * 4)
          + ONE)

\* a plausible slip of fromMat3: the branch for a non-positive trace leaves
\* out[3] as it was
FromDiagonal_stale(out, m, i, fRoot) ==
    LET j == (i + 1) % 3
        k == (i + 2) % 3
        r == FDiv(HALF, fRoot)
    IN  Put(Put(Put(out, i, FMul(HALF, fRoot)),
            j, FMul(At(m, j * 3 + i) + At(m, i * 3 + j), r)),
            k, FMul(At(m, k * 3 + i) + At(m, i * 3 + k), r))

\* fromMat3 when the trace is not positive, i the largest diagonal element
FromDiagonal(out, m, i, fRoot) ==
    LET j == (i + 1) % 3
        k == (i + 2) % 3
        r == FDiv(HALF, fRoot)
    IN  Put(Put(Put(Put(out, i, FMul(HALF, fRoot)),
            3, FMul(At(m, j * 3 + k) - At(m, k * 3 + j), r)),
            j, FMul(At(m, j * 3 + i) + At(m, i * 3 + j), r)),
            k, FMul(At(m, k * 3 + i) + At(m, i * 3 + k), r))

\* gl-matrix quat.fromMat3(out, m), called at quantize.ts line 334
fromMat3(out, m) ==
    IF Trace(m) > 0
    THEN FromTrace(out, m, FSqrt(Trace(m) + ONE))
    ELSE FromDiagonal(out, m, MaxDiag(m), DiagRoot(m, MaxDiag(m)))

(***************************************************************************)
(* TangentFrameCodec, angle-sign form: tangentEncoding.ts                  *)
(***************************************************************************)
\* Math.abs(normalCopy[0]) < 0.9 ? (1,0,0) : (0,1,0), normalCopy being the
\* normalized normal: |n.x| / |n| < 9/10 (the zero vector stays zero)
TempVecOf(normal) ==
    IF 100 * normal[1] * normal[1] < 81 * Dot(normal, normal)
          \/ Dot(normal, normal) = 0
    THEN <<1, 0, 0>>
    ELSE <<0, 1, 0>>

\* Math.atan2(sinAngle, cosAngle) in eighths of a turn (pi/4), where
\* sinAngle = sN / (|b| |t| |n|) and cosAngle = cN / (|b| |t|) for the
\* unnormalized bitangent b, tangent t and normal n, and n2 = |n|^2.
\* Defined on the directions whose angle is a multiple of pi/4.  Not defined
\* for sN = 0 with cN <= 0, where the result (+pi, -pi or 0) depends on the
\* signs of the floating-point zeros, which integers do not carry.
Atan2Eighths(sN, cN, n2) ==
    CASE sN = 0 /\ cN > 0 -> 0
      [] cN = 0 /\ sN > 0 -> 2
      [] cN = 0 /\ sN < 0 -> -2
      [] sN # 0 /\ cN # 0 /\ sN * sN = n2 * cN * cN ->
            IF sN > 0 THEN (IF cN > 0 THEN 1 ELSE 3)
                      ELSE (IF cN > 0 THEN -1 ELSE -3)

\* the angle of the tangent against the reference bitangent, in eighths of
\* a turn: lines 433-444
TangentAngle(normal, tangent) ==
    LET tempVec   == TempVecOf(normal)
        bitangent == Cross(normal, tempVec)
        cosN      == Dot(tangent, bitangent)
        sinN      == Dot(Cross(bitangent, tangent), normal)
    IN  Atan2Eighths(sinN, cosN, Dot(normal, normal))

encodeTangentAsAngle16_wide(normal, tangent, tangentSign) ==
    LET k == TangentAngle(normal, tangent)
        quantizedAngle == RoundHalfUp((k + 4) * 65535, 8)
        sign == IF tangentSign > 0 THEN 1 ELSE 0
    IN  BitOr(ShiftL(sign, 15), quantizedAngle)

encodeTangentAsAngle16(normal, tangent, tangentSign) ==
    LET k == TangentAngle(normal, tangent)
        \* normalizedAngle = (angle + PI) / (2 PI) = (k + 4) / 8
        quantizedAngle == BitAnd(RoundHalfUp((k + 4) * 32767, 8), 32767)
        sign == IF tangentSign > 0 THEN 1 ELSE 0
    IN  BitOr(ShiftL(sign, 15), quantizedAngle)

\* <<sign, angle, tempVec>>: the sign returned, the decoded angle
\* (quantizedAngle / 32767) * 2 PI - PI as a multiple of PI / 32767, and the
\* tempVec the reference bitangent is built from
decodeAngleAsTangent16(encoded, normal) ==
    LET sign == BitAnd(ShiftR(encoded, 15), 1) * 2 - 1
        quantizedAngle == BitAnd(encoded, 32767)
    IN  <<sign, 2 * quantizedAngle - 32767, TempVecOf(normal)>>

decodeAngleAsTangentUsingPolynomialApproximation16(encoded, normal) ==
    LET sign == BitAnd(ShiftR(encoded, 15), 1) * 2 - 1
        quantizedAngle == BitAnd(encoded, 32767)
    IN  <<sign, 2 * quantizedAngle - 32767, TempVecOf(normal)>>

(***************************************************************************)
(* tangentEncoding.ts: encodeTangent and its two decoders                  *)
(***************************************************************************)
\* lines 9-44; the angle in eighths of a turn as in TangentAngle
encodeTangent(normal, tangent, tangentSign) ==
    LET k == TangentAngle(normal, tangent)
        quantizedAngle == BitAnd(RoundHalfUp((k + 4) * 32767, 8), 32767)
        sign == IF tangentSign > 0 THEN 1 ELSE 0
    IN  BitOr(ShiftL(sign, 15), quantizedAngle)

\* <<sign, angle, tempVec>> as for decodeAngleAsTangent16; line 127 returns
\* the bit itself
decodeTangentOriginal(encoded, normal) ==
    LET sign == BitAnd(ShiftR(encoded, 15), 1)
        quantizedAngle == BitAnd(encoded, 32767)
    IN  <<sign, 2 * quantizedAngle - 32767, TempVecOf(normal)>>

\* line 87 returns the bit itself
decodeTangentOptimized(encoded, normal) ==
    LET sign == BitAnd(ShiftR(encoded, 15), 1)
        quantizedAngle == BitAnd(encoded, 32767)
    IN  <<sign, 2 * quantizedAngle - 32767, TempVecOf(normal)>>

(***************************************************************************)
(* fastSin / fastCos: part_004 lines 460-483 (the same code in             *)
(* tangentEncoding.ts and, in GLSL, in part_002), in fixed point           *)
(***************************************************************************)
\* <<hi, lo>> with a * b = hi * ONE + lo and 0 <= lo < ONE, for
\* 0 <= a, b < 2^26 whose product is below 2^51
TMul(a, b) ==
    LET ah == a \div 1024
        al == a % 1024
        bh == b \div 1024
        bl == b % 1024
        mid == ah * bl + al * bh
        rest == (mid % 1024) * 1024 + al * bl
    IN  << ah * bh + mid \div 1024 + rest \div ONE, rest % ONE >>

\* a * b for fixed-point a, b of either sign
SMul(a, b) == Rounded(TMul(Abs(a), Abs(b)), (a < 0) # (b < 0))

\* n / 2^k rounded to the nearest integer
Scaled(n, k) ==
    IF n < 0 THEN -((-n + Pow2(k - 1)) \div Pow2(k))
    ELSE (n + Pow2(k - 1)) \div Pow2(k)

\* Math.PI
PI == 3294199
TWO_PI == 2 * PI
HALF_PI == Scaled(PI, 1)

\* the coefficients of lines 467-469, kept to 24 bits:
\* a3 = -0.16666667 = A3 / 2^24, a5 = 0.008333333 = A5 / 2^28,
\* a7 = -0.000198413 = A7 / 2^33
A3 == -2796203
A5 == 2236962
A7 == -1704355

\* a3 * v, a5 * v, a7 * v
TimesA3(v) == Scaled(SMul(A3, v), 4)
TimesA5(v) == Scaled(SMul(A5, v), 8)
TimesA7(v) == Scaled(SMul(A7, v), 13)

\* x % y of JavaScript for y > 0: the remainder has the sign of x
Rem(x, y) == IF x < 0 THEN -((-x) % y) ELSE x % y

\* lines 462-464: wrap x to [-PI, PI]
Wrapped(r) ==
    IF r > PI THEN r - TWO_PI
    ELSE IF r < -PI THEN r + TWO_PI
    ELSE r

\* line 474: x + a3 * x3 + a5 * x3 * x2 + a7 * x3 * x2 * x2
Polynomial(x, x2, x3) ==
    x + TimesA3(x3) + SMul(TimesA5(x3), x2) + SMul(SMul(TimesA7(x3), x2), x2)

\* lines 471-474
Approximated(x, x2) == Polynomial(x, x2, SMul(x2, x))

Squared(x) == Approximated(x, SMul(x, x))

fastSin(x) == Squared(Wrapped(Rem(x, TWO_PI)))

fastCos(x) == fastSin(x + HALF_PI)

(***************************************************************************)
(* TangentFrameCodec, quaternion form: quantize.ts                         *)
(***************************************************************************)
\* Math.round(x) for x = n / (2 * ONE), n given as sign and magnitude
\* <<hi, lo>> = hi * ONE + lo: floor(x + 1/2)
RoundHalves(neg, p) ==
    IF neg THEN -((p[1] + (IF p[2] > 0 THEN 1 ELSE 0)) \div 2)
    ELSE (p[1] + 1) \div 2

\* a slip of quantizeSignedFloat: truncation instead of Math.round
quantizeSignedFloat_trunc(value, bits) ==
    LET maxValue == ShiftL(1, bits) - 1
        p == WMul(Abs(value + ONE), maxValue)
    IN  IF value + ONE < 0 THEN -(p[1] \div 2) ELSE p[1] \div 2

\* Math.round((value * 0.5 + 0.5) * maxValue)
quantizeSignedFloat(value, bits) ==
    LET maxValue == ShiftL(1, bits) - 1
    IN  RoundHalves(value + ONE < 0, WMul(Abs(value + ONE), maxValue))

\* (value / maxValue) * 2.0 - 1.0
unquantizeSignedFloat(value, bits) ==
    LET maxValue == ShiftL(1, bits) - 1
    IN  FDiv(value, maxValue) * 2 - ONE

packQuaternion12BitsTo16Bits(a, b, c, d) ==
    store4x12To3x16(quantizeSignedFloat(a, 12), quantizeSignedFloat(b, 12),
                    quantizeSignedFloat(c, 12), quantizeSignedFloat(d, 12))

Unquantized12(q) ==
    << unquantizeSignedFloat(q[1], 12), unquantizeSignedFloat(q[2], 12),
       unquantizeSignedFloat(q[3], 12), unquantizeSignedFloat(q[4], 12) >>

unpackQuaternion12Bits(a, b, c) ==
    QNormalize(Unquantized12(load4x12From3x16(a, b, c)))

\* toMat3 writes the first nine elements of out (temps.MAT0 is a mat4)
toMat3(out, c00, c01, c02, c10, c11, c12, c20, c21, c22) ==
    LET c == <<c00, c01, c02, c10, c11, c12, c20, c21, c22>>
    IN  [i \in 1..Len(out) |-> IF i <= 9 THEN c[i] ELSE out[i]]

\* TempVars as the module creates it
TempVarsInit ==
    [ TMP0 |-> <<0, 0, 0>>, TMP1 |-> <<0, 0, 0>>, TMP2 |-> <<0, 0, 0>>,
      MAT0 |-> <<ONE, 0, 0, 0,  0, ONE, 0, 0,  0, 0, ONE, 0,  0, 0, 0, ONE>>,
      F0 |-> <<0, 0, ONE>>,
      F1 |-> <<2 * ONE, -2 * ONE, -2 * ONE>>,
      F2 |-> <<2 * ONE, 2 * ONE, -2 * ONE>>,
      Q0 |-> <<ONE, 0, 0>>,
      Q1 |-> <<-2 * ONE, 2 * ONE, -2 * ONE>>,
      Q2 |-> <<-2 * ONE, 2 * ONE, 2 * ONE>>,
      qTangent |-> <<0, 0, 0, ONE>>,
      qTangent12 |-> <<0, 0, 0>> ]

\* bias = 1 / ((1 << (numStorageBits - 1)) - 1), rounded up to the next
\* unit: the words quantizeSignedFloat gives for bias and -bias are then the
\* ones the floating-point computation gives (129/126, 2049/2046,
\* 32769/32766)
Bias(numStorageBits) ==
    LET d == ShiftL(1, numStorageBits - 1) - 1 IN (ONE + d - 1) \div d

\* lines 331-333 of encodeQTangent: c = cross(temps.TMP0, n, t) and
\* mat = toMat3(temps.MAT0, t, c, n)
CrossInto(n, t, tv) == [tv EXCEPT !.TMP0 = FCross(n, t)]

MatInto(n, t, tv) ==
    [tv EXCEPT !.MAT0 = toMat3(@, t[1], t[2], t[3],
                               tv.TMP0[1], tv.TMP0[2], tv.TMP0[3],
                               n[1], n[2], n[3])]

\* lines 334-335: quat.fromMat3(out, mat); quat.normalize(out, out), out
\* being temps.qTangent
QuatInto(tv) == [tv EXCEPT !.qTangent = QNormalize(fromMat3(@, tv.MAT0))]

\* lines 338-340: if (out[3] < 0) quat.scale(out, out, -1)
Positive(tv) ==
    IF tv.qTangent[4] < 0 THEN [tv EXCEPT !.qTangent = QNegate(@)] ELSE tv

\* lines 331-340 of encodeQTangent: the TempVars after them
QTangentPositive(n, t, tv) ==
    Positive(QuatInto(MatInto(n, t, CrossInto(n, t, tv))))

\* whether encodeQTangent takes the branch of line 348
ClampApplied(n, t, tv, numStorageBits) ==
    QTangentPositive(n, t, tv).qTangent[4] < Bias(numStorageBits)

\* lines 349-353: out[3] = bias; out[0..2] *= factor
Clamped(q, bias, factor) ==
    << FMul(q[1], factor), FMul(q[2], factor), FMul(q[3], factor), bias >>

\* lines 347-354 left out: w stays as small as it is
NonZeroW_skipped(tv, bias) == tv

\* lines 347-354
NonZeroW(tv, bias) ==
    IF tv.qTangent[4] < bias
    THEN [tv EXCEPT !.qTangent =
              Clamped(@, bias, FSqrt(ONE - FMul(bias, bias)))]
    ELSE tv

\* a slip of line 357: the handedness read the wrong way round
Handed_flipped(n, t, tv) ==
    [tv EXCEPT !.TMP1 = IF t[4] > 0 THEN FCross(n, t) ELSE FCross(t, n),
               !.TMP2 = FCross(t, n)]

\* lines 357 and 361: b into temps.TMP1, cc into temps.TMP2
Handed(n, t, tv) ==
    [tv EXCEPT !.TMP1 = IF t[4] > 0 THEN FCross(t, n) ELSE FCross(n, t),
               !.TMP2 = FCross(t, n)]

\* lines 362-364: if (dot(cc, b) < 0) quat.scale(out, out, -1)
Reflected(tv) ==
    IF FDot(tv.TMP2, tv.TMP1) < 0
    THEN [tv EXCEPT !.qTangent = QNegate(@)]
    ELSE tv

\* encodeQTangent(temps.qTangent, n, t, temps, numStorageBits): the TempVars
\* after the call; the quaternion returned is its qTangent
encodeQTangent(n, t, tv, numStorageBits) ==
    Reflected(Handed(n, t,
        NonZeroW(QTangentPositive(n, t, tv), Bias(numStorageBits))))

\* the words of the 12-, 16- and 8-bit forms of q
Words12(q) == packQuaternion12BitsTo16Bits(q[1], q[2], q[3], q[4])

Words16(q) ==
    << ToUint16(quantizeSignedFloat(q[1], 16)),
       ToUint16(quantizeSignedFloat(q[2], 16)),
       ToUint16(quantizeSignedFloat(q[3], 16)),
       ToUint16(quantizeSignedFloat(q[4], 16)) >>

Words8(q) ==
    store4x8To2x16(quantizeSignedFloat(q[1], 8), quantizeSignedFloat(q[2], 8),
                   quantizeSignedFloat(q[3], 8), quantizeSignedFloat(q[4], 8))

\* <<words written to out, TempVars after the call>>
Packed12(tv) == << Words12(tv.qTangent), tv >>

Packed16(tv) == << Words16(tv.qTangent), tv >>

Packed8(tv) == << Words8(tv.qTangent), tv >>

encodeQuaternion12Bits(n, t, tv) == Packed12(encodeQTangent(n, t, tv, 12))

encodeQuaternion16Bits(n, t, tv) == Packed16(encodeQTangent(n, t, tv, 16))

encodeQuaternion8Bits(n, t, tv) == Packed8(encodeQTangent(n, t, tv, 8))

\* the statements of toNormal on the scratch vectors: n1 is temps.TMP1, n2
\* temps.TMP2, tmp temps.TMP0 (vec3.set returns tmp)
NormalScratch(q, tv) ==
    [tv EXCEPT !.TMP1 = FScale(tv.F1, q[1]),
               !.TMP0 = <<q[3], q[4], q[1]>>,
               !.TMP1 = FMultiply(@, <<q[3], q[4], q[1]>>),
               !.TMP2 = FScale(tv.F2, q[2]),
               !.TMP0 = <<q[4], q[3], q[2]>>,
               !.TMP2 = FMultiply(@, <<q[4], q[3], q[2]>>)]

\* a slip of toNormal: the sum is accumulated in the shared constant F0
NormalSum_intoF0(tv) ==
    << FAdd(FAdd(tv.F0, tv.TMP1), tv.TMP2),
       [tv EXCEPT !.F0 = FAdd(FAdd(tv.F0, tv.TMP1), tv.TMP2)] >>

\* out = F0 + n1 + n2: <<out, TempVars>>
NormalSum(tv) == << FAdd(FAdd(tv.F0, tv.TMP1), tv.TMP2), tv >>

\* toNormal(out, q, temps): <<out, TempVars after the call>>
toNormal(q, tv) == NormalSum(NormalScratch(q, tv))

\* a slip of line 433: the magnitude of q[1] set into the scratch vector
TangentScratch_magnitude(q, tv) ==
    [tv EXCEPT !.TMP0 = FScale(tv.Q1, q[2]),
               !.TMP1 = <<Abs(q[2]), q[1], q[4]>>,
               !.TMP0 = FMultiply(@, <<Abs(q[2]), q[1], q[4]>>),
               !.TMP2 = FScale(tv.Q2, q[3]),
               !.TMP1 = <<q[3], q[4], q[1]>>,
               !.TMP2 = FMultiply(@, <<q[3], q[4], q[1]>>)]

\* lines 432-436 of decodeQTangent on the scratch vectors
TangentScratch(q, tv) ==
    [tv EXCEPT !.TMP0 = FScale(tv.Q1, q[2]),
               !.TMP1 = <<q[2], q[1], q[4]>>,
               !.TMP0 = FMultiply(@, <<q[2], q[1], q[4]>>),
               !.TMP2 = FScale(tv.Q2, q[3]),
               !.TMP1 = <<q[3], q[4], q[1]>>,
               !.TMP2 = FMultiply(@, <<q[3], q[4], q[1]>>)]

\* lines 439-443: t = Q0 + t1 + t2, t[3] = q[3] > 0 ? 1 : -1
TangentSum(q, tv) ==
    LET t3 == FAdd(FAdd(tv.Q0, tv.TMP0), tv.TMP2)
    IN  << t3[1], t3[2], t3[3], IF q[4] > 0 THEN 1 ELSE -1 >>

\* r is toNormal's <<normal, TempVars>>
Frame(q, normal, tv) == << normal, TangentSum(q, tv), tv >>

TangentOf(q, r) == Frame(q, r[1], TangentScratch(q, r[2]))

\* decodeQTangent(q, temps): <<normal, tangent (vec4), TempVars after the call>>
decodeQTangent(q, tv) == TangentOf(q, toNormal(q, tv))

decodeQuaternion12Bits(q12, tv) ==
    decodeQTangent(unpackQuaternion12Bits(q12[1], q12[2], q12[3]), tv)

decodeQuaternion16Bits(q, tv) ==
    decodeQTangent(QNormalize(<< unquantizeSignedFloat(q[1], 16),
                                 unquantizeSignedFloat(q[2], 16),
                                 unquantizeSignedFloat(q[3], 16),
                                 unquantizeSignedFloat(q[4], 16) >>), tv)

Unquantized8(l) ==
    << unquantizeSignedFloat(l[1], 8), unquantizeSignedFloat(l[2], 8),
       unquantizeSignedFloat(l[3], 8), unquantizeSignedFloat(l[4], 8) >>

decodeQuaternion8Bits(q, tv) ==
    decodeQTangent(QNormalize(Unquantized8(load4x8From2x16(q[1], q[2]))), tv)

AxisDirs ==
    { <<1, 0, 0>>, <<-1, 0, 0>>, <<0, 1, 0>>, <<0, -1, 0>>,
      <<0, 0, 1>>, <<0, 0, -1>> }

Cube == {-1, 0, 1} \X {-1, 0, 1} \X {-1, 0, 1}

\* normals whose |x| / |n| is within 1e-5 of 0.9, on either side
EdgeNormals == { <<121, 25, -53>>, <<101, 32, 37>>, <<73, 17, -31>> }

\* for a normal n: the reference bitangent b and n x b
EdgeTangents(n) ==
    LET b == Cross(n, TempVecOf(n)) IN { b, Cross(n, b) }

\* whether atan2 of the pair's sine and cosine is one Atan2Eighths defines
AngleDefined(n, t) ==
    LET b == Cross(n, TempVecOf(n))
    IN  ~(Dot(Cross(b, t), n) = 0 /\ Dot(t, b) <= 0)

\* (normal, tangent) pairs: axis normals with every tangent of the cube that
\* is not on the negative reference axis, and the edge normals
AngleFrames ==
    { f \in AxisDirs \X Cube : AngleDefined(f[1], f[2]) }
    \cup UNION { {<<n, t>> : t \in EdgeTangents(n)} : n \in EdgeNormals }

\* the tangentSign argument: +1 and -1, and the 0 the mesh quantizer passes
\* for a handedness that is not positive (quantize.ts line 71)
Handedness == {1, -1, 0}

AngleInit ==
    /\ agPc = "in"
    /\ \E f \in AngleFrames : agNormal = f[1] /\ agTangent = f[2]
    /\ agSign \in Handedness
    /\ agWord = 0
    /\ agExact = None
    /\ agPoly = None

AngleIdle ==
    /\ agPc = "idle"
    /\ agNormal = None
    /\ agTangent = None
    /\ agSign = 0
    /\ agWord = 0
    /\ agExact = None
    /\ agPoly = None

EncodeTangentAsAngle16 ==
    /\ agPc = "in"
    /\ agWord' = encodeTangentAsAngle16(agNormal, agTangent, agSign)
    /\ agPc' = "encoded"
    /\ UNCHANGED <<agNormal, agTangent, agSign, agExact, agPoly>>
    /\ UNCHANGED notAg

DecodeAngleAsTangent16 ==
    /\ agPc = "encoded"
    /\ agExact = None
    /\ agExact' = decodeAngleAsTangent16(agWord, agNormal)
    /\ UNCHANGED <<agPc, agNormal, agTangent, agSign, agWord, agPoly>>
    /\ UNCHANGED notAg

DecodeAngleAsTangentPoly16 ==
    /\ agPc = "encoded"
    /\ agPoly = None
    /\ agPoly' = decodeAngleAsTangentUsingPolynomialApproximation16(agWord, agNormal)
    /\ UNCHANGED <<agPc, agNormal, agTangent, agSign, agWord, agExact>>
    /\ UNCHANGED notAg

AngleNext ==
    \/ EncodeTangentAsAngle16
    \/ DecodeAngleAsTangent16
    \/ DecodeAngleAsTangentPoly16

Vec4(u, h) == <<u[1], u[2], u[3], h>>

FOver(d, len) ==
    << FDiv(d[1] * ONE, len), FDiv(d[2] * ONE, len), FDiv(d[3] * ONE, len) >>

\* the unit vector of an integer direction d with |d|^2 <= 4
FUnit(d) == FOver(d, FSqrt(Dot(d, d) * ONE))

\* the 24 orthonormal frames along the axes
AxisFrames == { f \in AxisDirs \X AxisDirs : Dot(f[1], f[2]) = 0 }

\* frames off the axes; the last two are not orthogonal
SkewFrames ==
    { << <<0, 0, 1>>, <<1, 1, 0>> >>,
      << <<1, 1, 1>>, <<1, -1, 0>> >>,
      << <<-1, 1, 0>>, <<0, 0, -1>> >>,
      << <<1, 0, 1>>, <<0, 1, 0>> >>,
      << <<0, 0, 1>>, <<1, 0, 1>> >>,
      << <<1, 1, 0>>, <<0, 1, 1>> >> }

\* frames a little short of a half turn about the x axis, by 0.01 rad and by
\* 0.0008 rad: w = sin(0.005) lies between 0 and the 8-bit bias, w =
\* sin(0.0004) between 0 and the 12-bit bias.  The normals are unit vectors
\* (0, -sin d, -cos d) in fixed point.
NearHalfTurns ==
    { << <<0, -10486, -1048524>>, <<ONE, 0, 0>> >>,
      << <<0, -839, -1048576>>, <<ONE, 0, 0>> >> }

\* <<normal, tangent, handedness>>: unit vectors in fixed point
QuatFrames ==
    { <<FUnit(f[1]), FUnit(f[2]), h>> :
          f \in AxisFrames \cup SkewFrames, h \in {1, -1} }
    \cup { <<f[1], f[2], h>> : f \in NearHalfTurns, h \in {1, -1} }

\* the inputs of the repeated-call harness: the identity, a half turn (w = 0:
\* the non-positive-trace branch of fromMat3, and the clamp), a third turn
\* and a skew frame
ScratchFrames ==
    { << FUnit(<<0, 0, 1>>), FUnit(<<1, 0, 0>>), 1 >>,
      << FUnit(<<0, 0, -1>>), FUnit(<<1, 0, 0>>), -1 >>,
      << FUnit(<<1, 0, 0>>), FUnit(<<0, 1, 0>>), 1 >>,
      << FUnit(<<1, 1, 1>>), FUnit(<<1, -1, 0>>), -1 >> }

\* encode calls of the repeated-call harness
MaxCalls == 3

QuatRestIdle ==
    /\ qtPool = {}
    /\ qtBudget = 0
    /\ qtCalls = 0
    /\ qtN = None
    /\ qtT = None
    /\ qtBits = 0
    /\ qtWords = None
    /\ qtClamped = FALSE
    /\ qtDec = None
    /\ qtFirst = None

QuatIdle ==
    /\ temps = TempVarsInit
    /\ QuatRestIdle

\* one encode call, then its decode, from a fresh TempVars
QuatInit ==
    /\ temps = TempVarsInit
    /\ qtPool = QuatFrames
    /\ qtBudget = 1
    /\ qtCalls = 0
    /\ qtN = None
    /\ qtT = None
    /\ qtBits = 0
    /\ qtWords = None
    /\ qtClamped = FALSE
    /\ qtDec = None
    /\ qtFirst = None

\* MaxCalls encode calls, decodes in between, on the one TempVars
ScratchInit ==
    /\ temps = TempVarsInit
    /\ qtPool = ScratchFrames
    /\ qtBudget = MaxCalls
    /\ qtCalls = 0
    /\ qtN = None
    /\ qtT = None
    /\ qtBits = 0
    /\ qtWords = None
    /\ qtClamped = FALSE
    /\ qtDec = None
    /\ qtFirst = None

\* what an encode call of width bits leaves behind, r being the encoder's
\* <<words, TempVars>> for n and t
Encoded(n, t, bits, r) ==
    /\ qtCalls < qtBudget
    /\ qtCalls' = qtCalls + 1
    /\ qtN' = n
    /\ qtT' = t
    /\ qtBits' = bits
    /\ qtWords' = r[1]
    /\ temps' = r[2]
    /\ qtClamped' = ClampApplied(n, t, temps, bits)
    /\ qtDec' = None
    /\ qtFirst' = IF qtFirst = None THEN <<n, t, bits, r[1]>> ELSE qtFirst
    /\ UNCHANGED <<qtPool, qtBudget>>
    /\ UNCHANGED notQt

EncodeQuaternion12Bits ==
    \E f \in qtPool :
        Encoded(f[1], Vec4(f[2], f[3]), 12,
                encodeQuaternion12Bits(f[1], Vec4(f[2], f[3]), temps))

EncodeQuaternion16Bits ==
    \E f \in qtPool :
        Encoded(f[1], Vec4(f[2], f[3]), 16,
                encodeQuaternion16Bits(f[1], Vec4(f[2], f[3]), temps))

EncodeQuaternion8Bits ==
    \E f \in qtPool :
        Encoded(f[1], Vec4(f[2], f[3]), 8,
                encodeQuaternion8Bits(f[1], Vec4(f[2], f[3]), temps))

\* what a decode call leaves behind, r being the decoder's
\* <<normal, tangent, TempVars>>
Decoded(r) ==
    /\ qtDec = None
    /\ qtDec' = <<r[1], r[2]>>
    /\ temps' = r[3]
    /\ UNCHANGED <<qtPool, qtBudget, qtCalls, qtN, qtT, qtBits, qtWords,
                   qtClamped, qtFirst>>
    /\ UNCHANGED notQt

DecodeQuaternion12Bits ==
    /\ qtBits = 12
    /\ Decoded(decodeQuaternion12Bits(qtWords, temps))

DecodeQuaternion16Bits ==
    /\ qtBits = 16
    /\ Decoded(decodeQuaternion16Bits(qtWords, temps))

DecodeQuaternion8Bits ==
    /\ qtBits = 8
    /\ Decoded(decodeQuaternion8Bits(qtWords, temps))

QuatNext ==
    \/ EncodeQuaternion12Bits
    \/ EncodeQuaternion16Bits
    \/ EncodeQuaternion8Bits
    \/ DecodeQuaternion12Bits
    \/ DecodeQuaternion16Bits
    \/ DecodeQuaternion8Bits

(***************************************************************************)
(* MeshQuantizer: quantizeMeshAngle16Bits and quantizeMeshQuaternion12Bits *)
(* of quantize.ts.  Positions are integers and the bounding boxes have     *)
(* ranges that are 0 or a power of two, UVs are multiples of 1/4 (given in *)
(* quarters): every quotient and product the quantizer forms is then an    *)
(* exact floating-point number, and the model computes it exactly.         *)
(***************************************************************************)
\* a floating-point number: <<"num", n, d>> is n / d (d > 0), <<"inf", s, 1>>
\* is s * Infinity and <<"nan", 0, 1>> is NaN
FloatDiv(a, r) ==
    IF r > 0 THEN <<"num", a, r>>
    ELSE IF r < 0 THEN <<"num", -a, -r>>
    ELSE IF a = 0 THEN <<"nan", 0, 1>>
    ELSE <<"inf", Sgn(a), 1>>

\* x * k for an integer k > 0
Times(x, k) == IF x[1] = "num" THEN <<"num", x[2] * k, x[3]>> ELSE x

\* n / d truncated toward zero
TruncQ(n, d) == IF n >= 0 THEN n \div d ELSE -((-n) \div d)

\* a slip of the typed-array store: an infinite value saturates
StoreUint16_saturating(x) ==
    IF x[1] = "num" THEN ToUint16(TruncQ(x[2], x[3]))
    ELSE IF x[1] = "inf" /\ x[2] > 0 THEN 65535 ELSE 0

\* the element a Uint16Array holds after x is stored: ToUint16, which
\* truncates, wraps modulo 2^16 and maps NaN and the infinities to 0
StoreUint16(x) ==
    IF x[1] = "num" THEN ToUint16(TruncQ(x[2], x[3])) ELSE 0

\* x | 0 (ToInt32) for |x| < 2^31: truncation, NaN and the infinities to 0
ToInt32(x) == IF x[1] = "num" THEN TruncQ(x[2], x[3]) ELSE 0

\* lines 58 and 62: compressedData[...] = ((p - positionMin) / range) * 65535
PositionWord(p, mn, rg) == StoreUint16(Times(FloatDiv(p - mn, rg), 65535))

\* lines 98-99: (uv * 65535) | 0 stored in the Uint16Array; u is in quarters
UvWord(u) == ToUint16(ToInt32(<<"num", u * 65535, 4>>))

\* the fold of lines 87-91 with the signs of octX and octY dropped
OctFold_unsigned(nx, ny, nz, l1) ==
    IF nz < 0 THEN << l1 - Abs(ny), l1 - Abs(nx) >> ELSE << nx, ny >>

\* lines 82-91 for a normal with L1 norm l1 > 0: the numerators of octX and
\* octY over l1
OctFold(nx, ny, nz, l1) ==
    IF nz < 0
    THEN << (l1 - Abs(ny)) * (IF nx >= 0 THEN 1 ELSE -1),
            (l1 - Abs(nx)) * (IF ny >= 0 THEN 1 ELSE -1) >>
    ELSE << nx, ny >>

\* lines 93-94: ((oct * 0.5 + 0.5) * 65535) | 0 stored, oct = num / l1
OctWord(num, l1) == ToUint16(ToInt32(<<"num", (num + l1) * 65535, 2 * l1>>))

OctPair(o, l1) == << OctWord(o[1], l1), OctWord(o[2], l1) >>

\* lines 79-94: the two words of the octahedral normal.  For the zero normal
\* invL1Norm is Infinity and both coordinates are NaN, stored as 0.
OctWords(n) ==
    IF Abs(n[1]) + Abs(n[2]) + Abs(n[3]) = 0 THEN <<0, 0>>
    ELSE OctPair(OctFold(n[1], n[2], n[3], Abs(n[1]) + Abs(n[2]) + Abs(n[3])),
                 Abs(n[1]) + Abs(n[2]) + Abs(n[3]))

\* elements idx, idx + 1, idx + 2 of a flat array, idx counted from 0
Vec3At(a, idx) == << a[idx + 1], a[idx + 2], a[idx + 3] >>

\* Infinity of lines 33-34: beyond every coordinate of the model
Infinity == 1024 * 1024

\* a slip of lines 37-44: Math.max folded into positionMin and Math.min
\* into positionMax
RECURSIVE Bounds_swapped(_, _, _, _)
Bounds_swapped(pos, k, mn, mx) ==
    IF k >= Len(pos) THEN <<mn, mx>>
    ELSE Bounds_swapped(pos, k + 3,
                << Max(mn[1], pos[k + 1]), Max(mn[2], pos[k + 2]),
                   Max(mn[3], pos[k + 3]) >>,
                << Min(mx[1], pos[k + 1]), Min(mx[2], pos[k + 2]),
                   Min(mx[3], pos[k + 3]) >>)

\* lines 37-44: the fold of Math.min / Math.max over positions from index k
RECURSIVE Bounds(_, _, _, _)
Bounds(pos, k, mn, mx) ==
    IF k >= Len(pos) THEN <<mn, mx>>
    ELSE Bounds(pos, k + 3,
                << Min(mn[1], pos[k + 1]), Min(mn[2], pos[k + 2]),
                   Min(mn[3], pos[k + 3]) >>,
                << Max(mx[1], pos[k + 1]), Max(mx[2], pos[k + 2]),
                   Max(mx[3], pos[k + 3]) >>)

\* lines 33-48: <<positionMin, positionMax>>
BoundingBox(pos, bmin, bmax) ==
    IF bmin = None \/ bmax = None
    THEN Bounds(pos, 0, <<Infinity, Infinity, Infinity>>,
                <<-Infinity, -Infinity, -Infinity>>)
    ELSE <<bmin, bmax>>

\* line 50: range = positionMax - positionMin
range == << positionMax[1] - positionMin[1], positionMax[2] - positionMin[2],
            positionMax[3] - positionMin[3] >>

\* data after the element stores st = << <<index, value>>, ... >> made in
\* that order; a store outside a typed array is ignored
Stored(data, st) ==
    [k \in 1..Len(data) |->
        IF \E s \in 1..Len(st) : st[s][1] = k - 1
        THEN st[CHOOSE s \in 1..Len(st) :
                    /\ st[s][1] = k - 1
                    /\ \A r \in (s + 1)..Len(st) : st[r][1] # k - 1][2]
        ELSE data[k]]

\* line 55: outIdx = i * 8
AngleOutIdx(v) == v * 8

\* line 139: outIdx = i * 8
QuatOutIdx(v) == v * 8

\* lines 58-66 (142-150): the stores of the position
PositionStores(outIdx, posIdx) ==
    << <<outIdx, PositionWord(positions[posIdx + 1], positionMin[1], range[1])>>,
       <<outIdx + 1, PositionWord(positions[posIdx + 2], positionMin[2], range[2])>>,
       <<outIdx + 2, PositionWord(positions[posIdx + 3], positionMin[3], range[3])>> >>

\* lines 98-99 (165-166): the stores of the UV
UvStores(outIdx, uvIdx) ==
    << <<outIdx + 6, UvWord(uvs[uvIdx + 1])>>,
       <<outIdx + 7, UvWord(uvs[uvIdx + 2])>> >>

\* lines 69-76: the store of the tangent word
TangentStores(outIdx, posIdx, tanIdx) ==
    << <<outIdx + 3,
         encodeTangentAsAngle16(Vec3At(normals, posIdx), Vec3At(tangents, tanIdx),
                                IF tangents[tanIdx + 4] > 0 THEN 1 ELSE 0)>> >>

NormalPair(outIdx, w) == << <<outIdx + 4, w[1]>>, <<outIdx + 5, w[2]>> >>

\* lines 79-94: the stores of the octahedral normal
NormalStores(outIdx, posIdx) ==
    NormalPair(outIdx, OctWords(Vec3At(normals, posIdx)))

\* the stores of one iteration of quantizeMeshAngle16Bits, lines 52-99
AngleStores(outIdx, posIdx, tanIdx, uvIdx) ==
    PositionStores(outIdx, posIdx) \o TangentStores(outIdx, posIdx, tanIdx)
    \o NormalStores(outIdx, posIdx) \o UvStores(outIdx, uvIdx)

\* lines 153-158: encodeQuaternion12Bits(qTangent12, normal, vec4Tmp,
\* TempVars) with vec4Tmp = (tangent, tangentSign): <<words, TempVars>>
FrameEncoded(posIdx, tanIdx, tv) ==
    encodeQuaternion12Bits(Vec3At(normals, posIdx),
        Vec4(Vec3At(tangents, tanIdx), IF tangents[tanIdx + 4] > 0 THEN 1 ELSE 0),
        tv)

\* the stores encodeQuaternion12Bits makes into its out array
OutStores(w) == << <<0, w[1]>>, <<1, w[2]>>, <<2, w[3]>> >>

\* lines 160-162: the stores of the quaternion words read from qTangent12
FrameStores(outIdx, q12) ==
    << <<outIdx + 3, q12[1]>>, <<outIdx + 4, q12[2]>>, <<outIdx + 5, q12[3]>> >>

\* the word indices of a list of stores
IndicesOf(st) == [s \in 1..Len(st) |-> st[s][1]]

MaxVertices == 2

\* sample vertices <<position, normal, tangent, handedness, uv>> of the
\* angle-sign format: normals and tangents are directions, the tangent lying
\* on the reference bitangent or a quarter turn from it
AnglePool ==
    { << <<0, 0, 0>>, <<0, 0, 1>>, <<1, 0, 0>>, 1, <<0, 4>> >>,
      << <<4, 2, 0>>, <<121, 25, -53>>, <<53, 0, 121>>, -1, <<1, 2>> >>,
      << <<2, 4, 4>>, <<101, 32, 37>>, <<0, 37, -32>>, 1, <<6, -2>> >>,
      << <<4, 4, 2>>, <<1, 0, 0>>, <<0, 0, 1>>, -1, <<2, 2>> >>,
      << <<0, 2, 4>>, <<73, 17, -31>>, <<31, 0, 73>>, 1, <<4, 0>> >> }

QuatDirs ==
    { << <<0, 0, 0>>, <<0, 0, 1>>, <<1, 0, 0>>, 1, <<0, 4>> >>,
      << <<4, 2, 0>>, <<0, 0, -1>>, <<1, 0, 0>>, -1, <<1, 2>> >>,
      << <<2, 4, 4>>, <<1, 0, 0>>, <<0, 1, 0>>, 1, <<6, -2>> >>,
      << <<4, 4, 2>>, <<1, 1, 1>>, <<1, -1, 0>>, -1, <<2, 2>> >>,
      << <<0, 2, 4>>, <<0, -1, 0>>, <<0, 0, 1>>, -1, <<4, 0>> >> }

\* the sample vertices of the quaternion format: unit normals and tangents
QuatPool ==
    { << v[1], FUnit(v[2]), FUnit(v[3]), v[4], v[5] >> : v \in QuatDirs }

\* the supplied bounding boxes <<min, max>>: one containing every sample
\* position, two that leave some outside, one with a degenerate z axis
Boxes ==
    { << <<0, 0, 0>>, <<4, 4, 4>> >>,
      << <<0, 0, 0>>, <<2, 2, 2>> >>,
      << <<2, 2, 2>>, <<4, 4, 4>> >>,
      << <<0, 0, 2>>, <<4, 4, 2>> >> }

\* the TempVars a run can start from: as created, or as an earlier encode
\* call left it
StartTemps ==
    { TempVarsInit,
      encodeQTangent(FUnit(<<1, 1, 1>>), Vec4(FUnit(<<1, -1, 0>>), 1),
                     TempVarsInit, 16) }

\* the vertex lists of 0 to MaxVertices vertices drawn from pool
Meshes(pool) == UNION { [1..n -> pool] : n \in 0..MaxVertices }

\* the flat array holding field f (w numbers) of the vertices vs
Flat(vs, f, w) ==
    [k \in 1..(w * Len(vs)) |-> vs[(k - 1) \div w + 1][f][((k - 1) % w) + 1]]

\* tangents: x, y, z and the handedness
FlatTangents(vs) ==
    [k \in 1..(4 * Len(vs)) |->
        IF (k - 1) % 4 = 3 THEN vs[(k - 1) \div 4 + 1][4]
        ELSE vs[(k - 1) \div 4 + 1][3][((k - 1) % 4) + 1]]

MeshArgs(fmt, vs, box) ==
    /\ format = fmt
    /\ numVertices = Len(vs)
    /\ positions = Flat(vs, 1, 3)
    /\ normals = Flat(vs, 2, 3)
    /\ tangents = FlatTangents(vs)
    /\ uvs = Flat(vs, 5, 2)
    /\ min = box[1]
    /\ max = box[2]

MeshRest ==
    /\ positionMin = None
    /\ positionMax = None
    /\ compressedData = None
    /\ qTangent12 = None
    /\ loopI = 0
    /\ wroteAt = <<>>
    /\ glData = None
    /\ glAttribs = None
    /\ glUniforms = None
    /\ vsI = 0
    /\ vsOut = <<>>
    /\ readAt = <<>>

MeshInit ==
    /\ mPc = "call"
    /\ \E box \in Boxes \cup { <<None, None>> } :
          \/ \E vs \in Meshes(AnglePool) : MeshArgs("angle16bits", vs, box)
          \/ \E vs \in Meshes(QuatPool) : MeshArgs("quaternion12bits", vs, box)
    /\ MeshRest

MeshIdle ==
    /\ mPc = "idle"
    /\ MeshArgs("none", <<>>, <<None, None>>)
    /\ MeshRest

Zeros(n) == [k \in 1..n |-> 0]

Boxed(b) ==
    /\ positionMin' = b[1]
    /\ positionMax' = b[2]

\* lines 31-50 (114-134): the arrays and the bounding box
QuantizeBegin ==
    /\ mPc = "call"
    /\ mPc' = "loop"
    /\ compressedData' = Zeros(numVertices * 8)
    /\ qTangent12' = IF format = "quaternion12bits"
                     THEN Zeros(numVertices * 3) ELSE None
    /\ Boxed(BoundingBox(positions, min, max))
    /\ loopI' = 0
    /\ UNCHANGED <<meshIn, wroteAt, glVars, temps>>
    /\ UNCHANGED notMesh

\* the stores st of one iteration, split at word f words after the position
Wrote(st, f) ==
    /\ compressedData' = Stored(compressedData, st)
    /\ wroteAt' = Append(wroteAt,
            [ position |-> IndicesOf(SubSeq(st, 1, 3)),
              tangent  |-> IndicesOf(SubSeq(st, 4, 3 + f)),
              normal   |-> IndicesOf(SubSeq(st, 4 + f, Len(st) - 2)),
              uv       |-> IndicesOf(SubSeq(st, Len(st) - 1, Len(st))) ])
    /\ loopI' = loopI + 1

\* one iteration of the loop of quantizeMeshAngle16Bits, lines 51-100
QuantizeVertexAngle16 ==
    /\ mPc = "loop"
    /\ format = "angle16bits"
    /\ loopI < numVertices
    /\ Wrote(AngleStores(AngleOutIdx(loopI), loopI * 3, loopI * 4, loopI * 2), 1)
    /\ UNCHANGED <<mPc, meshIn, positionMin, positionMax, qTangent12, glVars,
                   temps>>
    /\ UNCHANGED notMesh

\* r is encodeQuaternion12Bits' <<words, TempVars>>
QuantizedFrame(outIdx, posIdx, uvIdx, r) ==
    /\ qTangent12' = Stored(qTangent12, OutStores(r[1]))
    /\ temps' = r[2]
    /\ Wrote(PositionStores(outIdx, posIdx) \o FrameStores(outIdx, qTangent12')
             \o UvStores(outIdx, uvIdx), 3)

\* one iteration of the loop of quantizeMeshQuaternion12Bits, lines 135-167
QuantizeVertexQuaternion12 ==
    /\ mPc = "loop"
    /\ format = "quaternion12bits"
    /\ loopI < numVertices
    /\ QuantizedFrame(QuatOutIdx(loopI), loopI * 3, loopI * 2,
                      FrameEncoded(loopI * 3, loopI * 4, temps))
    /\ UNCHANGED <<mPc, meshIn, positionMin, positionMax, glVars>>
    /\ UNCHANGED notMesh

\* lines 102-106 (169-173): the loop is over, the result is returned
QuantizeReturn ==
    /\ mPc = "loop"
    /\ loopI >= numVertices
    /\ mPc' = "quantized"
    /\ UNCHANGED <<meshIn, meshOut, glVars, temps>>
    /\ UNCHANGED notMesh

(***************************************************************************)
(* GpuQuantizedMesh (gpu-mesh.ts) and standardAngle16BitVertexShader       *)
(* (shaders-quantized.ts)                                                  *)
(***************************************************************************)
\* the bytes of a Uint16Array, little-endian
Bytes(data) ==
    [k \in 1..(2 * Len(data)) |->
        IF k % 2 = 1 THEN data[(k + 1) \div 2] % 256
        ELSE data[k \div 2] \div 256]

\* the constructor, lines 148-176: createBuffer(gl, mesh.quantizedData, ...)
Upload ==
    /\ mPc = "quantized"
    /\ mPc' = "uploaded"
    /\ glData' = Bytes(compressedData)
    /\ UNCHANGED <<meshIn, meshOut, glAttribs, glUniforms, vsI, vsOut, readAt,
                   temps>>
    /\ UNCHANGED notMesh

\* a slip of line 202: the offset counted in words
AttribPointer_words(k) ==
    [ size |-> 2, type |-> "UNSIGNED_SHORT", stride |-> 16, offset |-> k * 2 ]

\* line 202: gl.vertexAttribIPointer(loc, 2, gl.UNSIGNED_SHORT, 16, i * 4)
AttribPointer(k) ==
    [ size |-> 2, type |-> "UNSIGNED_SHORT", stride |-> 16, offset |-> k * 4 ]

\* bind, lines 188-215
Bind ==
    /\ mPc = "uploaded"
    /\ mPc' = "bound"
    /\ glAttribs' = [k \in 1..4 |-> AttribPointer(k - 1)]
    /\ glUniforms' = <<positionMin, positionMax>>
    /\ UNCHANGED <<meshIn, meshOut, glData, vsI, vsOut, readAt, temps>>
    /\ UNCHANGED notMesh

\* the byte offset of component c of attribute a for vertex v
ByteOffset(a, v, c) == a.stride * v + a.offset + 2 * c

\* the unsigned short at byte offset o of the buffer
FetchUint16(buf, o) == buf[o + 1] + 256 * buf[o + 2]

\* the components of attribute a the buffer supplies for vertex v
Fetch(buf, a, v) ==
    [c \in 1..a.size |-> FetchUint16(buf, ByteOffset(a, v, c - 1))]

\* the index in the Uint16Array of the word at byte offset o
WordIndex(o) == o \div 2

\* octDecode16, lines 75-82, in units of 1/32767 and before normalize:
\* f = oct * inv32767 - 1, n = (f.x, f.y, 1 - |f.x| - |f.y|), t = max(-n.z, 0)
OctShift(x, y, z) ==
    << x + (IF x >= 0 THEN -Max(-z, 0) ELSE Max(-z, 0)),
       y + (IF y >= 0 THEN -Max(-z, 0) ELSE Max(-z, 0)),
       z >>

OctPoint(x, y) == OctShift(x, y, 32767 - Abs(x) - Abs(y))

\* line 76: f = vec2(oct) * inv32767 - 1.0, in units of 1/32767
OctCoords(oct) == << oct[1] - 32767, oct[2] - 32767 >>

octDecode16(oct) == OctPoint(oct[1] - 32767, oct[2] - 32767)

\* whether 100 * a < 81 * s, for 0 <= a, s < 2^31
Below81(a, s) == a < 81 * (s \div 100) + ((81 * (s % 100)) + 99) \div 100

\* line 100: abs(normal.x) < 0.9 ? (1,0,0) : (0,1,0), normal = normalize(n)
ShaderTempVec(n) ==
    IF Below81(n[1] * n[1], Dot(n, n)) THEN <<1, 0, 0>> ELSE <<0, 1, 0>>

\* decodeAngleTangent16, lines 92-112: <<quantizedAngle, tempVec>>, the angle
\* and the reference the tangent is rebuilt from
decodeAngleTangent16(encoded, normal) ==
    << BitAnd(encoded, 32767), ShaderTempVec(normal) >>

\* main of standardAngle16BitVertexShader, lines 146-166, on the attributes
\* aCompressedData0..3 of one vertex
ShaderMain(a0, a1, a2, a3) ==
    [ position    |-> << a0[1], a0[2], a1[1] >>,
      normal      |-> octDecode16(<< a2[1], a2[2] >>),
      tangentData |-> a1[2],
      tangent     |-> decodeAngleTangent16(a1[2], octDecode16(<< a2[1], a2[2] >>)),
      tangentSign |-> BitAnd(ShiftR(a1[2], 15), 1) * 2 - 1,
      uv          |-> << a3[1], a3[2] >> ]

standardAngle16BitVertexShader(buf, at, v) ==
    ShaderMain(Fetch(buf, at[1], v), Fetch(buf, at[2], v),
               Fetch(buf, at[3], v), Fetch(buf, at[4], v))

\* the word indices main reads each field from
ShaderReads(at, v) ==
    [ position |-> << WordIndex(ByteOffset(at[1], v, 0)),
                      WordIndex(ByteOffset(at[1], v, 1)),
                      WordIndex(ByteOffset(at[2], v, 0)) >>,
      tangent  |-> << WordIndex(ByteOffset(at[2], v, 1)) >>,
      normal   |-> << WordIndex(ByteOffset(at[3], v, 0)),
                      WordIndex(ByteOffset(at[3], v, 1)) >>,
      uv       |-> << WordIndex(ByteOffset(at[4], v, 0)),
                      WordIndex(ByteOffset(at[4], v, 1)) >> ]

\* the vertex shader runs on the next vertex of the bound buffer
VertexShaderAngle16 ==
    /\ mPc = "bound"
    /\ format = "angle16bits"
    /\ vsI < numVertices
    /\ vsOut' = Append(vsOut, standardAngle16BitVertexShader(glData, glAttribs, vsI))
    /\ readAt' = Append(readAt, ShaderReads(glAttribs, vsI))
    /\ vsI' = vsI + 1
    /\ UNCHANGED <<mPc, meshIn, meshOut, glData, glAttribs, glUniforms, temps>>
    /\ UNCHANGED notMesh

MeshNext ==
    \/ QuantizeBegin
    \/ QuantizeVertexAngle16
    \/ QuantizeVertexQuaternion12
    \/ QuantizeReturn
    \/ Upload
    \/ Bind
    \/ VertexShaderAngle16

(***************************************************************************)
(* fastSin and fastCos applied to the angles k * PI / Steps of [-PI, PI]   *)
(***************************************************************************)
Steps == 64

Angles == { (k * PI) \div Steps : k \in (-Steps)..Steps }

TrigInit ==
    /\ trPc = "in"
    /\ trX \in Angles
    /\ trSin = None
    /\ trCos = None

TrigIdle ==
    /\ trPc = "idle"
    /\ trX = 0
    /\ trSin = None
    /\ trCos = None

FastSin ==
    /\ trPc = "in"
    /\ trSin = None
    /\ trSin' = <<fastSin(trX)>>
    /\ UNCHANGED <<trPc, trX, trCos>>
    /\ UNCHANGED notTr

FastCos ==
    /\ trPc = "in"
    /\ trCos = None
    /\ trCos' = <<fastCos(trX)>>
    /\ UNCHANGED <<trPc, trX, trSin>>
    /\ UNCHANGED notTr

TrigNext ==
    \/ FastSin
    \/ FastCos

(***************************************************************************)
(* The octahedral normal codec on its own: the encoder of                  *)
(* quantizeMeshAngle16Bits (lines 79-94) and the shader's octDecode16      *)
(***************************************************************************)
MaxCoord == 3

\* the directions of the normals encoded
OctDirs ==
    { d \in (-MaxCoord..MaxCoord) \X (-MaxCoord..MaxCoord) \X (-MaxCoord..MaxCoord) :
        d # <<0, 0, 0>> }

\* stored words decoded without having been encoded here
OctWordSamples == {0, 1, 32767, 32768, 65534, 65535}

OctInit ==
    /\ ocOut = None
    /\ \/ /\ ocPc = "in"
          /\ ocN \in OctDirs
          /\ ocWords = <<0, 0>>
       \/ /\ ocPc = "stored"
          /\ ocN = None
          /\ ocWords \in OctWordSamples \X OctWordSamples

OctIdle ==
    /\ ocPc = "idle"
    /\ ocN = None
    /\ ocWords = <<0, 0>>
    /\ ocOut = None

OctEncode ==
    /\ ocPc = "in"
    /\ ocWords' = OctWords(ocN)
    /\ ocPc' = "stored"
    /\ UNCHANGED <<ocN, ocOut>>
    /\ UNCHANGED notOc

\* f: the two coordinates before z is reconstructed; n: the vector handed to
\* normalize, both in units of 1/32767
OctDecode16 ==
    /\ ocPc = "stored"
    /\ ocOut = None
    /\ ocOut' = [f |-> OctCoords(ocWords), n |-> octDecode16(ocWords)]
    /\ UNCHANGED <<ocPc, ocN, ocWords>>
    /\ UNCHANGED notOc

OctNext ==
    \/ OctEncode
    \/ OctDecode16

(***************************************************************************)
(* decodeQTangent on a quaternion and on its negation, both on the shared  *)
(* TempVars                                                                *)
(***************************************************************************)
\* quaternions with w = 0 and quaternions that are not of unit length
OddQuats ==
    { <<ONE, 0, 0, 0>>, <<0, 741455, -741455, 0>>, <<0, 0, 0, ONE>>,
      <<ONE, -ONE, ONE, -ONE>>, <<HALF, 0, -HALF, HALF>> }

\* the quaternions decoded: what encodeQTangent returns for the frames of
\* QuatFrames at each storage width, and the odd ones
DecodedQuats ==
    { encodeQTangent(f[1], Vec4(f[2], f[3]), TempVarsInit, b).qTangent :
          f \in QuatFrames, b \in {8, 12, 16} }
    \cup OddQuats

DqInit ==
    /\ dqQ \in DecodedQuats
    /\ dqPos = None
    /\ dqNeg = None

DqIdle ==
    /\ dqQ = None
    /\ dqPos = None
    /\ dqNeg = None

\* r is decodeQTangent's <<normal, tangent, TempVars>>
DqDecoded(r) ==
    /\ temps' = r[3]
    /\ UNCHANGED dqQ
    /\ UNCHANGED notDq

DecodeQTangent ==
    /\ dqQ # None
    /\ dqPos = None
    /\ dqPos' = SubSeq(decodeQTangent(dqQ, temps), 1, 2)
    /\ DqDecoded(decodeQTangent(dqQ, temps))
    /\ UNCHANGED dqNeg

DecodeQTangentNegated ==
    /\ dqQ # None
    /\ dqNeg = None
    /\ dqNeg' = SubSeq(decodeQTangent(QNegate(dqQ), temps), 1, 2)
    /\ DqDecoded(decodeQTangent(QNegate(dqQ), temps))
    /\ UNCHANGED dqPos

DqNext ==
    \/ DecodeQTangent
    \/ DecodeQTangentNegated

(***************************************************************************)
(* testTangentEncoding of tangentEncoding.ts, statement by statement       *)
(***************************************************************************)
TeInit ==
    /\ tePc = "call"
    /\ \E f \in AngleFrames : teNormal = f[1] /\ teTangent = f[2]
    /\ teSign \in {1, -1}
    /\ teEncoded = 0
    /\ teDecoded = None
    /\ teOptimized = None

TeIdle ==
    /\ tePc = "idle"
    /\ teNormal = None
    /\ teTangent = None
    /\ teSign = 0
    /\ teEncoded = 0
    /\ teDecoded = None
    /\ teOptimized = None

\* line 162
TestEncode ==
    /\ tePc = "call"
    /\ teEncoded' = encodeTangent(teNormal, teTangent, teSign)
    /\ tePc' = "encoded"
    /\ UNCHANGED <<teNormal, teTangent, teSign, teDecoded, teOptimized>>
    /\ UNCHANGED notTe

\* line 165
TestDecodeOriginal ==
    /\ tePc = "encoded"
    /\ teDecoded' = decodeTangentOriginal(teEncoded, teNormal)
    /\ tePc' = "decoded"
    /\ UNCHANGED <<teNormal, teTangent, teSign, teEncoded, teOptimized>>
    /\ UNCHANGED notTe

\* line 166
TestDecodeOptimized ==
    /\ tePc = "decoded"
    /\ teOptimized' = decodeTangentOptimized(teEncoded, teNormal)
    /\ tePc' = "done"
    /\ UNCHANGED <<teNormal, teTangent, teSign, teEncoded, teDecoded>>
    /\ UNCHANGED notTe

TeNext ==
    \/ TestEncode
    \/ TestDecodeOriginal
    \/ TestDecodeOptimized

(***************************************************************************)
(* generateMesh and its workers: mesh.ts (part_006 lines 433-692) and the   *)
(* grid of boxFaceWorker.ts                                                *)
(***************************************************************************)
MaxResolution == 2

Faces == 0..5

\* lines 524-527
NumVerticesPerFace(resolution) == resolution * resolution * 4
NumIndicesPerFace(resolution) == resolution * resolution * 6

\* TypedArray.prototype.set(source, offset)
TypedSet(target, source, offset) ==
    [k \in 1..Len(target) |->
        IF k > offset /\ k <= offset + Len(source) THEN source[k - offset]
        ELSE target[k]]

\* boxFaceWorker.ts lines 39, 46-47, 69-70 and 81-87: the indices of the
\* quads of one face, localQuadIndex = x * heightSteps + y
QuadIndices(offsetVertexIndex, vertexIndex) ==
    << offsetVertexIndex + vertexIndex + 0, offsetVertexIndex + vertexIndex + 2,
       offsetVertexIndex + vertexIndex + 1, offsetVertexIndex + vertexIndex + 0,
       offsetVertexIndex + vertexIndex + 3, offsetVertexIndex + vertexIndex + 2 >>

FaceIndices(faceIndex, resolution) ==
    [k \in 1..NumIndicesPerFace(resolution) |->
        QuadIndices(faceIndex * NumVerticesPerFace(resolution),
                    ((k - 1) \div 6) * 4)[((k - 1) % 6) + 1]]

\* the w numbers per vertex a face worker generates for attribute a: the
\* k-th number of face f stands for itself
FaceArray(a, f, resolution, w) ==
    [k \in 1..(NumVerticesPerFace(resolution) * w) |-> <<a, f, k>>]

\* the bounding box the face workers quantize on: the one box of the whole
\* rounded box, of the size posted to every worker (line 676), in tenths
SharedBox == << <<-8, -8, -8>>, <<8, 8, 8>> >>

\* the data a face worker posts back
FaceReply(f, resolution, quantize) ==
    IF quantize
    THEN [ faceIndex |-> f,
           indices |-> FaceIndices(f, resolution),
           quantizedData |-> FaceArray("q", f, resolution, 8),
           positionMin |-> SharedBox[1],
           positionMax |-> SharedBox[2] ]
    ELSE [ faceIndex |-> f,
           indices |-> FaceIndices(f, resolution),
           positions |-> FaceArray("p", f, resolution, 3),
           normals |-> FaceArray("n", f, resolution, 3),
           tangents |-> FaceArray("t", f, resolution, 4),
           uvs |-> FaceArray("u", f, resolution, 2) ]

\* new Float32Array(n), new Uint16Array(n), new Uint32Array(n)
ZeroArray(n) == [k \in 1..n |-> 0]

\* lines 529-550: the final arrays
NewMesh(resolution, quantize) ==
    IF quantize
    THEN [ quantizedData |-> ZeroArray(NumVerticesPerFace(resolution) * 6 * 8),
           positionMin |-> <<0, 0, 0>>,
           positionMax |-> <<0, 0, 0>>,
           indices |-> ZeroArray(NumIndicesPerFace(resolution) * 6),
           vertexBytes |-> 16,
           numVertices |-> NumVerticesPerFace(resolution) * 6 ]
    ELSE [ positions |-> ZeroArray(NumVerticesPerFace(resolution) * 6 * 3),
           normals |-> ZeroArray(NumVerticesPerFace(resolution) * 6 * 3),
           tangents |-> ZeroArray(NumVerticesPerFace(resolution) * 6 * 4),
           uvs |-> ZeroArray(NumVerticesPerFace(resolution) * 6 * 2),
           indices |-> ZeroArray(NumIndicesPerFace(resolution) * 6),
           vertexBytes |-> 44,
           numVertices |-> NumVerticesPerFace(resolution) * 6 ]

\* a slip of line 662: the offset counted in vertices of 4 words
QuantizedOffset_vec4(faceIndex, numVerticesPerFace) ==
    faceIndex * numVerticesPerFace * 4

\* line 662 (598): faceIndex * numVerticesPerFace * 8
QuantizedOffset(faceIndex, numVerticesPerFace) ==
    faceIndex * numVerticesPerFace * 8

\* a slip of lines 663-664: the assembled mesh keeps the box it was created
\* with
StoredBox_kept(mesh, data) == mesh

\* lines 663-664 (599-600)
StoredBox(mesh, data) ==
    [mesh EXCEPT !.positionMin = data.positionMin,
                 !.positionMax = data.positionMax]

\* lines 649-665 (585-601): what worker.onmessage makes of the mesh
OnFaceMessage(mesh, data, nv, ni, quantize) ==
    IF quantize
    THEN StoredBox(
            [mesh EXCEPT
                !.indices = TypedSet(@, data.indices, data.faceIndex * ni),
                !.quantizedData =
                    TypedSet(@, data.quantizedData,
                             QuantizedOffset(data.faceIndex, nv))],
            data)
    ELSE [mesh EXCEPT
            !.indices = TypedSet(@, data.indices, data.faceIndex * ni),
            !.positions = TypedSet(@, data.positions, data.faceIndex * nv * 3),
            !.normals = TypedSet(@, data.normals, data.faceIndex * nv * 3),
            !.tangents = TypedSet(@, data.tangents, data.faceIndex * nv * 4),
            !.uvs = TypedSet(@, data.uvs, data.faceIndex * nv * 2)]

\* the slice [from, to) of array a that a set of n numbers at offset writes
Slice(a, f, offset, n) == [array |-> a, face |-> f, from |-> offset, to |-> offset + n]

\* the slices the handler writes for the reply of face f
SlicesWritten(f, nv, ni, quantize) ==
    { Slice("indices", f, f * ni, ni) } \cup
    IF quantize
    THEN { Slice("quantizedData", f, QuantizedOffset(f, nv), nv * 8) }
    ELSE { Slice("positions", f, f * nv * 3, nv * 3),
           Slice("normals", f, f * nv * 3, nv * 3),
           Slice("tangents", f, f * nv * 4, nv * 4),
           Slice("uvs", f, f * nv * 2, nv * 2) }

\* sphereWorker.ts lines 11, 78-95: the mesh the sphere worker posts back
SphereReply(resolution, quantize) ==
    [ vertexBytes |-> IF quantize THEN 16 ELSE 44,
      numVertices |-> (resolution + 1) * (resolution + 1),
      quantized |-> quantize ]

NoWorkers == [f \in Faces |-> "none"]

GmInit ==
    /\ gmPc = "call"
    /\ gmShape \in {"sphere", "wavySphere", "roundedBox"}
    /\ gmRes \in 1..MaxResolution
    /\ gmQuantize \in BOOLEAN
    /\ gmMobile \in BOOLEAN
    /\ gmWorker = NoWorkers
    /\ gmMesh = None
    /\ gmFaceBox = [f \in Faces |-> None]
    /\ gmWrote = {}
    /\ gmPromise = "pending"

GmIdle ==
    /\ gmPc = "idle"
    /\ gmShape = "none"
    /\ gmRes = 0
    /\ gmQuantize = FALSE
    /\ gmMobile = FALSE
    /\ gmWorker = NoWorkers
    /\ gmMesh = None
    /\ gmFaceBox = [f \in Faces |-> None]
    /\ gmWrote = {}
    /\ gmPromise = "pending"

\* generateSphere / generateWavySphere, lines 433-459: the worker is created
\* and the message posted
GenerateSphere ==
    /\ gmPc = "call"
    /\ gmShape \in {"sphere", "wavySphere"}
    /\ gmPc' = "waiting"
    /\ gmWorker' = [gmWorker EXCEPT ![0] = "posted"]
    /\ UNCHANGED <<gmShape, gmRes, gmQuantize, gmMobile, gmMesh, gmFaceBox,
                   gmWrote, gmPromise>>
    /\ UNCHANGED notGm

\* generateRoundedBox up to its first await, lines 474-685: the arrays, and
\* the first worker (sequential) or the six workers (parallel)
GenerateRoundedBox ==
    /\ gmPc = "call"
    /\ gmShape = "roundedBox"
    /\ gmPc' = "waiting"
    /\ gmMesh' = NewMesh(gmRes, gmQuantize)
    /\ gmWorker' = IF gmMobile THEN [gmWorker EXCEPT ![0] = "posted"]
                   ELSE [f \in Faces |-> "posted"]
    /\ UNCHANGED <<gmShape, gmRes, gmQuantize, gmMobile, gmFaceBox, gmWrote,
                   gmPromise>>
    /\ UNCHANGED notGm

\* worker.onmessage of lines 439-442 (453-456): terminate and resolve(e.data)
SphereWorkerMessage ==
    /\ gmPc = "waiting"
    /\ gmShape \in {"sphere", "wavySphere"}
    /\ gmWorker[0] = "posted"
    /\ gmWorker' = [gmWorker EXCEPT ![0] = "terminated"]
    /\ gmMesh' = SphereReply(gmRes, gmQuantize)
    /\ gmPromise' = "resolved"
    /\ UNCHANGED <<gmPc, gmShape, gmRes, gmQuantize, gmMobile, gmFaceBox,
                   gmWrote>>
    /\ UNCHANGED notGm

\* the sphere worker raises an error event: lines 438-444 (452-458) set no
\* onerror and no reject, the promise is left as it is
SphereWorkerError ==
    /\ gmPc = "waiting"
    /\ gmShape \in {"sphere", "wavySphere"}
    /\ gmWorker[0] = "posted"
    /\ gmWorker' = [gmWorker EXCEPT ![0] = "errored"]
    /\ UNCHANGED <<gmPc, gmShape, gmRes, gmQuantize, gmMobile, gmMesh,
                   gmFaceBox, gmWrote, gmPromise>>
    /\ UNCHANGED notGm

\* the workers after the handler of face f resolved its promise: the loop of
\* lines 558-621 posts to the next worker, line 687 waits for all of them
AfterFace(f) ==
    IF gmMobile /\ f < 5
    THEN [gmWorker EXCEPT ![f] = "terminated", ![f + 1] = "posted"]
    ELSE [gmWorker EXCEPT ![f] = "terminated"]

\* whether generateRoundedBox returns once the workers are as in w
AllFacesDone(w) == \A g \in Faces : w[g] = "terminated"

\* worker.onmessage of lines 636-669 (572-605) for the reply of face f, and
\* the continuation of generateRoundedBox it releases
FaceWorkerMessage(f) ==
    /\ gmPc = "waiting"
    /\ gmShape = "roundedBox"
    /\ gmWorker[f] = "posted"
    /\ gmMesh' = OnFaceMessage(gmMesh, FaceReply(f, gmRes, gmQuantize),
                               NumVerticesPerFace(gmRes),
                               NumIndicesPerFace(gmRes), gmQuantize)
    /\ gmFaceBox' =
          [gmFaceBox EXCEPT ![f] =
              IF gmQuantize
              THEN << FaceReply(f, gmRes, gmQuantize).positionMin,
                      FaceReply(f, gmRes, gmQuantize).positionMax >>
              ELSE None]
    /\ gmWrote' = gmWrote \cup SlicesWritten(f, NumVerticesPerFace(gmRes),
                                             NumIndicesPerFace(gmRes), gmQuantize)
    /\ gmWorker' = AfterFace(f)
    /\ gmPromise' = IF gmPromise = "pending" /\ AllFacesDone(AfterFace(f))
                    THEN "resolved" ELSE gmPromise
    /\ UNCHANGED <<gmPc, gmShape, gmRes, gmQuantize, gmMobile>>
    /\ UNCHANGED notGm

\* worker.onerror of lines 630-634 (566-570): terminate and reject; the
\* await (sequential) or Promise.all (parallel) rejects generateRoundedBox
FaceWorkerError(f) ==
    /\ gmPc = "waiting"
    /\ gmShape = "roundedBox"
    /\ gmWorker[f] = "posted"
    /\ gmWorker' = [gmWorker EXCEPT ![f] = "terminated"]
    /\ gmPromise' = IF gmPromise = "pending" THEN "rejected" ELSE gmPromise
    /\ UNCHANGED <<gmPc, gmShape, gmRes, gmQuantize, gmMobile, gmMesh,
                   gmFaceBox, gmWrote>>
    /\ UNCHANGED notGm

GmNext ==
    \/ GenerateSphere
    \/ GenerateRoundedBox
    \/ SphereWorkerMessage
    \/ SphereWorkerError
    \/ \E f \in Faces : FaceWorkerMessage(f)
    \/ \E f \in Faces : FaceWorkerError(f)

(***************************************************************************)
(* PerformanceMonitor (performance.ts, part_012) and the timer queries of  *)
(* the GL context                                                          *)
(***************************************************************************)
\* the queries of the pool (line 28 pools 16), the frames and the
\* saveMeasure calls per frame of the model
POOL_SIZE == 3
MaxFrames == 4
MaxSaves == 2

MeasureNames == {"shadow", "draw"}

\* lines 56-64
NewPool == [i \in 1..POOL_SIZE |-> [active |-> FALSE, name |-> "", frameId |-> -1]]

\* line 68: queryPool.find(q => !q.active), 0 for undefined
FindInactive(pool) ==
    IF \E i \in 1..Len(pool) : ~pool[i].active
    THEN CHOOSE i \in 1..Len(pool) :
            /\ ~pool[i].active
            /\ \A j \in 1..(i - 1) : pool[j].active
    ELSE 0

\* getQueryFromPool, lines 67-74: <<the query or 0 for null, the pool>>
getQueryFromPool(pool, count) ==
    IF FindInactive(pool) # 0
    THEN << FindInactive(pool),
            [pool EXCEPT ![FindInactive(pool)].active = TRUE,
                         ![FindInactive(pool)].frameId = count] >>
    ELSE << 0, pool >>

\* gl.beginQuery(TIME_ELAPSED_EXT, q) on the GL state g = <<glQuery,
\* glPending, glErrors>>: INVALID_OPERATION while a query is begun
GlBeginQuery(g, q) ==
    IF g[1] # 0 THEN << g[1], g[2], g[3] \cup {"beginQuery while a query is begun"} >>
    ELSE << q, g[2] \cup {q},
            IF q \in g[2] THEN g[3] \cup {"beginQuery of a pending query"}
            ELSE g[3] >>

\* gl.endQuery(TIME_ELAPSED_EXT): INVALID_OPERATION while no query is begun
GlEndQuery(g) ==
    IF g[1] = 0 THEN << 0, g[2], g[3] \cup {"endQuery while no query is begun"} >>
    ELSE << 0, g[2], g[3] >>

PmInit ==
    /\ pmInFrame = FALSE
    /\ pmExt \in BOOLEAN
    /\ queryPool = IF pmExt THEN NewPool ELSE <<>>
    /\ activeQuery = 0
    /\ frameCount = 0
    /\ pmSaves = 0
    /\ glQuery = 0
    /\ glPending = {}
    /\ glErrors = {}

PmIdle ==
    /\ pmInFrame = FALSE
    /\ pmExt = FALSE
    /\ queryPool = <<>>
    /\ activeQuery = 0
    /\ frameCount = 0
    /\ pmSaves = 0
    /\ glQuery = 0
    /\ glPending = {}
    /\ glErrors = {}

\* the GL state after the calls
Gl(g) ==
    /\ glQuery' = g[1]
    /\ glPending' = g[2]
    /\ glErrors' = g[3]

\* lines 80-84 and 97-104: r is getQueryFromPool's result, g the GL state
BeginNew(r, g) ==
    /\ queryPool' = r[2]
    /\ IF r[1] # 0
       THEN Gl(GlBeginQuery(g, r[1])) /\ activeQuery' = r[1]
       ELSE Gl(g) /\ UNCHANGED activeQuery

\* beginFrame, lines 76-85
BeginFrame ==
    /\ ~pmInFrame
    /\ frameCount < MaxFrames
    /\ pmInFrame' = TRUE
    /\ pmSaves' = 0
    /\ BeginNew(getQueryFromPool(queryPool, frameCount),
                <<glQuery, glPending, glErrors>>)
    /\ UNCHANGED <<pmExt, frameCount>>
    /\ UNCHANGED notPm

\* the pool after line 92
Named(pool, q, name) ==
    IF q # 0 THEN [pool EXCEPT ![q].name = name] ELSE pool

\* the GL state after line 93 (111)
Ended(q, g) == IF q # 0 THEN GlEndQuery(g) ELSE g

\* saveMeasure, lines 87-105
SaveMeasure(name) ==
    /\ pmInFrame
    /\ pmSaves < MaxSaves
    /\ pmSaves' = pmSaves + 1
    /\ IF ~pmExt
       THEN UNCHANGED <<queryPool, activeQuery, glQuery, glPending, glErrors>>
       ELSE BeginNew(getQueryFromPool(Named(queryPool, activeQuery, name),
                                       frameCount),
                     Ended(activeQuery, <<glQuery, glPending, glErrors>>))
    /\ UNCHANGED <<pmInFrame, pmExt, frameCount>>
    /\ UNCHANGED notPm

\* endFrame, lines 107-117
EndFrame ==
    /\ pmInFrame
    /\ pmInFrame' = FALSE
    /\ queryPool' = Named(queryPool, activeQuery, "frameEnd")
    /\ Gl(Ended(activeQuery, <<glQuery, glPending, glErrors>>))
    /\ activeQuery' = 0
    /\ frameCount' = frameCount + 1
    /\ UNCHANGED <<pmExt, pmSaves>>
    /\ UNCHANGED notPm

\* the queries whose result the GL can report as available: ended ones
Reportable == { q \in glPending : q # glQuery }

\* checkQueryResults, lines 119-145, called after endFrame (part_008 lines
\* 406-407): the GL reports the results of the queries of avail as
\* available (none when the GPU was disjoint)
CheckQueryResults(avail) ==
    /\ ~pmInFrame
    /\ pmExt
    /\ queryPool' = [i \in 1..Len(queryPool) |->
                        IF queryPool[i].active /\ i \in avail
                        THEN [queryPool[i] EXCEPT !.active = FALSE]
                        ELSE queryPool[i]]
    /\ glPending' = glPending \ { i \in avail : queryPool[i].active }
    /\ UNCHANGED <<pmInFrame, pmExt, activeQuery, frameCount, pmSaves, glQuery,
                   glErrors>>
    /\ UNCHANGED notPm

PmNext ==
    \/ BeginFrame
    \/ \E name \in MeasureNames : SaveMeasure(name)
    \/ EndFrame
    \/ \E avail \in SUBSET Reportable : CheckQueryResults(avail)

(***************************************************************************)
(* main() of main.ts (part_008): the render loop, the mesh build it starts *)
(* and the control panel                                                   *)
(***************************************************************************)
Shapes == {"sphere", "roundedBox"}
Resolutions == {512, 1024}
Formats == {"none", "angle16bits", "quaternion12bits"}

\* null where the other values are strings
Null == "null"

\* needToBuildMesh, lines 261-275
needToBuildMesh(ms, p) ==
    /\ ~ms.isBuildingMesh
    /\ \/ /\ p.quantizationFormat # "none"
          /\ \/ ms.gpuQuantizedMesh = None
             \/ ms.lastResolution # p.resolution
             \/ ms.lastShape # p.shape
             \/ ms.lastQuantizationFormat # p.quantizationFormat
       \/ /\ p.quantizationFormat = "none"
          /\ \/ ms.gpuUncompressedMesh = None
             \/ ms.lastResolution # p.resolution
             \/ ms.lastShape # p.shape

\* the arguments of line 243: generateMesh(params.shape, params.resolution,
\* params.quantizationFormat)
BuildArgs(p) ==
    [ shape |-> p.shape, resolution |-> p.resolution,
      quantizationFormat |-> p.quantizationFormat ]

\* the Mesh a worker posts for these arguments: quantizedData and the box for
\* a quantized format, the float arrays otherwise (part_003 lines 78-105)
MeshOf(args) ==
    [ generated |-> args, quantizedData |-> args.quantizationFormat # "none",
      positions |-> args.quantizationFormat = "none" ]

\* a slip of line 304: the flag is not set
Started_unflagged(ms) == ms

\* line 304
Started(ms) == [ms EXCEPT !.isBuildingMesh = TRUE]

\* lines 279-286
Cleaned(ms) ==
    [ms EXCEPT !.gpuQuantizedMesh = None, !.gpuUncompressedMesh = None]

\* lines 294-296
Remembered(ms, p) ==
    [ms EXCEPT !.lastResolution = p.resolution,
               !.lastShape = p.shape,
               !.lastQuantizationFormat = p.quantizationFormat]

\* updateMesh, lines 277-297, with the constructors of gpu-mesh.ts (lines
\* 59-61 and 153-155): <<what was thrown or Null, the state>>
updateMesh(ms, p, currentMesh) ==
    IF p.quantizationFormat # "none"
    THEN IF currentMesh.quantizedData
         THEN << Null,
                 Remembered([Cleaned(ms) EXCEPT !.gpuQuantizedMesh = currentMesh], p) >>
         ELSE << "Mesh is missing quantized data or position bounds", Cleaned(ms) >>
    ELSE IF currentMesh.positions
         THEN << Null,
                 Remembered([Cleaned(ms) EXCEPT !.gpuUncompressedMesh = currentMesh], p) >>
         ELSE << "Mesh is missing required attributes", Cleaned(ms) >>

\* lines 307-308, reached when r = updateMesh(...) did not throw
Finished(r, p) ==
    IF r[1] = Null
    THEN [r[2] EXCEPT !.program = p.quantizationFormat, !.isBuildingMesh = FALSE]
    ELSE r[2]

\* lines 354-385: what render binds and draws, or what it throws
Drawing(ms, p) ==
    LET useQuantizedMesh ==
            IF ms.isBuildingMesh THEN ms.gpuQuantizedMesh # None
            ELSE p.quantizationFormat # "none"
    IN  IF ms.program = Null THEN [thrown |-> "Program not found"]
        ELSE IF useQuantizedMesh /\ ms.gpuQuantizedMesh = None
        THEN [thrown |-> "Quantized mesh not found"]
        ELSE IF ~useQuantizedMesh /\ ms.gpuUncompressedMesh = None
        THEN [thrown |-> "Uncompressed mesh not found"]
        ELSE [ thrown |-> Null,
               useQuantizedMesh |-> useQuantizedMesh,
               program |-> ms.program,
               lastQuantizationFormat |-> ms.lastQuantizationFormat,
               mesh |-> IF useQuantizedMesh THEN ms.gpuQuantizedMesh
                        ELSE ms.gpuUncompressedMesh ]

AllParams ==
    [ shape : Shapes, resolution : Resolutions, quantizationFormat : Formats,
      isPaused : BOOLEAN ]

\* lines 110-119 and 232-240
AppInit ==
    /\ params \in AllParams
    /\ meshState = [ gpuUncompressedMesh |-> None, gpuQuantizedMesh |-> None,
                     lastResolution |-> -1, lastShape |-> Null,
                     lastQuantizationFormat |-> Null, isBuildingMesh |-> FALSE,
                     program |-> Null ]
    /\ builds = <<>>
    /\ rafScheduled = TRUE
    /\ drawn = None
    /\ thrown = {}

AppIdle ==
    /\ params = None
    /\ meshState = None
    /\ builds = <<>>
    /\ rafScheduled = FALSE
    /\ drawn = None
    /\ thrown = {}

\* a control of the panel changes one parameter, lines 132-183
ChangeParam ==
    /\ params # None
    /\ \E p \in AllParams :
          /\ p # params
          /\ Cardinality({ k \in DOMAIN p : p[k] # params[k] }) = 1
          /\ params' = p
    /\ UNCHANGED <<meshState, builds, rafScheduled, drawn, thrown>>
    /\ UNCHANGED notApp

\* startMeshBuild up to its await, lines 301-305 and 243
StartMeshBuild ==
    /\ meshState' = Started(meshState)
    /\ builds' = Append(builds, [args |-> BuildArgs(params), state |-> "running"])

\* the rest of render, lines 321-418, d being Drawing(meshState', params)
Draw(d) ==
    IF meshState'.gpuUncompressedMesh = None /\ meshState'.gpuQuantizedMesh = None
    THEN UNCHANGED <<rafScheduled, drawn, thrown>>
    ELSE IF d.thrown # Null
    THEN /\ thrown' = thrown \cup {d.thrown}
         /\ rafScheduled' = FALSE
         /\ UNCHANGED drawn
    ELSE /\ drawn' = d
         /\ UNCHANGED <<rafScheduled, thrown>>

\* render, lines 311-418, on an animation frame
Render ==
    /\ rafScheduled
    /\ IF params.isPaused
       THEN UNCHANGED <<meshState, builds, rafScheduled, drawn, thrown>>
       ELSE /\ IF needToBuildMesh(meshState, params)
               THEN StartMeshBuild
               ELSE UNCHANGED <<meshState, builds>>
            /\ Draw(Drawing(meshState', params))
    /\ UNCHANGED params
    /\ UNCHANGED notApp

\* the builds without the i-th
Without(i) == SubSeq(builds, 1, i - 1) \o SubSeq(builds, i + 1, Len(builds))

\* the workers of a build replied: the promise of generateMesh resolves and
\* buildMesh and startMeshBuild run on, lines 244-258 and 306-308
BuildResolved ==
    /\ \E i \in 1..Len(builds) :
          /\ builds[i].state = "running"
          /\ builds' = Without(i)
          /\ meshState' = Finished(updateMesh(meshState, params,
                                              MeshOf(builds[i].args)), params)
          /\ thrown' = thrown \cup
                ({updateMesh(meshState, params, MeshOf(builds[i].args))[1]}
                 \ {Null})
    /\ UNCHANGED <<params, rafScheduled, drawn>>
    /\ UNCHANGED notApp

\* a face worker of a rounded box raised an error: generateMesh rejects
\* (part_006 lines 630-634), the await of line 305 throws
BuildRejected ==
    /\ \E i \in 1..Len(builds) :
          /\ builds[i].state = "running"
          /\ builds[i].args.shape = "roundedBox"
          /\ builds' = Without(i)
    /\ thrown' = thrown \cup {"worker error"}
    /\ UNCHANGED <<params, meshState, rafScheduled, drawn>>
    /\ UNCHANGED notApp

\* the worker of a sphere raised an error: the promise of generateMesh stays
\* pending (part_006 lines 438-444)
BuildHung ==
    /\ \E i \in 1..Len(builds) :
          /\ builds[i].state = "running"
          /\ builds[i].args.shape # "roundedBox"
          /\ builds' = [builds EXCEPT ![i].state = "hung"]
    /\ UNCHANGED <<params, meshState, rafScheduled, drawn, thrown>>
    /\ UNCHANGED notApp

AppNext ==
    \/ ChangeParam
    \/ Render
    \/ BuildResolved
    \/ BuildRejected
    \/ BuildHung

(***************************************************************************)
(* Specifications: one per subsystem, the others idle                      *)
(***************************************************************************)
InitPack == PackInit /\ AngleIdle /\ QuatIdle /\ MeshIdle /\ TrigIdle
    /\ OctIdle
    /\ DqIdle
    /\ TeIdle
    /\ GmIdle
    /\ PmIdle
    /\ AppIdle

SpecPack == InitPack /\ [][PackNext]_vars

InitAngle == AngleInit /\ PackIdle /\ QuatIdle /\ MeshIdle /\ TrigIdle
    /\ OctIdle
    /\ DqIdle
    /\ TeIdle
    /\ GmIdle
    /\ PmIdle
    /\ AppIdle

SpecAngle == InitAngle /\ [][AngleNext]_vars

InitQuat == QuatInit /\ PackIdle /\ AngleIdle /\ MeshIdle /\ TrigIdle
    /\ OctIdle
    /\ DqIdle
    /\ TeIdle
    /\ GmIdle
    /\ PmIdle
    /\ AppIdle

SpecQuat == InitQuat /\ [][QuatNext]_vars

InitScratch == ScratchInit /\ PackIdle /\ AngleIdle /\ MeshIdle /\ TrigIdle
    /\ OctIdle
    /\ DqIdle
    /\ TeIdle
    /\ GmIdle
    /\ PmIdle
    /\ AppIdle

SpecScratch == InitScratch /\ [][QuatNext]_vars

InitMesh ==
    /\ MeshInit
    /\ PackIdle
    /\ AngleIdle
    /\ temps \in StartTemps
    /\ QuatRestIdle
    /\ TrigIdle
    /\ OctIdle
    /\ DqIdle
    /\ TeIdle
    /\ GmIdle
    /\ PmIdle
    /\ AppIdle

SpecMesh == InitMesh /\ [][MeshNext]_vars

InitTrig ==
    /\ TrigInit
    /\ PackIdle
    /\ AngleIdle
    /\ QuatIdle
    /\ MeshIdle
    /\ OctIdle
    /\ DqIdle
    /\ TeIdle
    /\ GmIdle
    /\ PmIdle
    /\ AppIdle

SpecTrig == InitTrig /\ [][TrigNext]_vars

InitOct ==
    /\ OctInit
    /\ PackIdle
    /\ AngleIdle
    /\ QuatIdle
    /\ MeshIdle
    /\ TrigIdle
    /\ DqIdle
    /\ TeIdle
    /\ GmIdle
    /\ PmIdle
    /\ AppIdle

SpecOct == InitOct /\ [][OctNext]_vars

InitDq ==
    /\ DqInit
    /\ PackIdle
    /\ AngleIdle
    /\ QuatIdle
    /\ MeshIdle
    /\ TrigIdle
    /\ OctIdle
    /\ TeIdle
    /\ GmIdle
    /\ PmIdle
    /\ AppIdle

SpecDq == InitDq /\ [][DqNext]_vars

InitTe ==
    /\ TeInit
    /\ PackIdle
    /\ AngleIdle
    /\ QuatIdle
    /\ MeshIdle
    /\ TrigIdle
    /\ OctIdle
    /\ DqIdle
    /\ GmIdle
    /\ PmIdle
    /\ AppIdle

SpecTe == InitTe /\ [][TeNext]_vars

InitGm ==
    /\ GmInit
    /\ PackIdle
    /\ AngleIdle
    /\ QuatIdle
    /\ MeshIdle
    /\ TrigIdle
    /\ OctIdle
    /\ DqIdle
    /\ TeIdle
    /\ PmIdle
    /\ AppIdle

SpecGm == InitGm /\ [][GmNext]_vars

InitPm ==
    /\ PmInit
    /\ PackIdle
    /\ AngleIdle
    /\ QuatIdle
    /\ MeshIdle
    /\ TrigIdle
    /\ OctIdle
    /\ DqIdle
    /\ TeIdle
    /\ GmIdle
    /\ AppIdle

SpecPm == InitPm /\ [][PmNext]_vars

InitApp ==
    /\ AppInit
    /\ PackIdle
    /\ AngleIdle
    /\ QuatIdle
    /\ MeshIdle
    /\ TrigIdle
    /\ OctIdle
    /\ DqIdle
    /\ TeIdle
    /\ GmIdle
    /\ PmIdle

SpecApp == InitApp /\ [][AppNext]_vars

(***************************************************************************)
(* C2: for every normal, tangent and handedness h in {+1, -1}, decoding    *)
(* the word of encodeTangentAsAngle16(normal, tangent, h) returns sign = h *)
(* with decodeAngleAsTangent16 and with the polynomial decoder.            *)
(***************************************************************************)
C2_SignPreserved ==
    agSign \in {1, -1} =>
        /\ agExact # None => agExact[1] = agSign
        /\ agPoly # None => agPoly[1] = agSign

C2_Witness ==
    /\ agExact # None
    /\ agPoly # None
    /\ agSign = -1
    /\ agWord = 28671

(***************************************************************************)
(* C1: for all a, b, c, d in [0, 4095], load4x12From3x16 applied to the    *)
(* three words written by store4x12To3x16(a, b, c, d) returns exactly      *)
(* (a, b, c, d).                                                           *)
(***************************************************************************)
C1_PackRoundTrip ==
    (pkIn # None /\ pkPc = "stored" /\ pkHost # None
        /\ \A k \in 1..4 : pkIn[k] \in 0..4095) => pkHost = pkIn

C1_Witness ==
    /\ pkIn # None
    /\ pkHost # None
    /\ pkIn[2] = 2048 /\ pkIn[3] = 256 /\ pkIn[4] = 4095

(***************************************************************************)
(* C10: for every triple of 16-bit words the shader's                      *)
(* unpack12bitQuaternion extracts the same four 12-bit integers, in the    *)
(* same order, as the host's load4x12From3x16.                             *)
(***************************************************************************)
C10_ShaderMatchesHost ==
    (pkHost # None /\ pkShader # None) => pkShader = pkHost

C10_Witness ==
    /\ pkIn = None
    /\ pkHost # None
    /\ pkShader # None
    /\ pkWords[2] = 256 /\ pkWords[3] = 65535

(***************************************************************************)
(* C3: for every unit normal and unit tangent with n x t # 0 and every     *)
(* handedness h in {+1, -1}, whenever the zero-w clamp was not applied,    *)
(* decoding the words of the 8-, 12- or 16-bit quaternion encoder returns  *)
(* the tangent handedness h (+1 when the decoded w > 0, -1 otherwise).     *)
(***************************************************************************)
C3_HandednessRecovered ==
    (qtDec # None /\ ~qtClamped) => qtDec[2][4] = qtT[4]

C3_Witness ==
    /\ qtDec # None
    /\ ~qtClamped
    /\ qtBits = 16
    /\ qtT[4] = -1
    /\ qtN = FUnit(<<1, 1, 1>>)

(***************************************************************************)
(* C7: encoding the same frame at the same width twice yields identical    *)
(* words whatever encode and decode calls come in between, and the         *)
(* constant vectors F0, F1, F2, Q0, Q1, Q2 of TempVars are never modified. *)
(***************************************************************************)
C7_ScratchCarriesNoState ==
    /\ (qtFirst # None /\ <<qtN, qtT, qtBits>> = <<qtFirst[1], qtFirst[2], qtFirst[3]>>)
          => qtWords = qtFirst[4]
    /\ temps.F0 = TempVarsInit.F0 /\ temps.F1 = TempVarsInit.F1
    /\ temps.F2 = TempVarsInit.F2 /\ temps.Q0 = TempVarsInit.Q0
    /\ temps.Q1 = TempVarsInit.Q1 /\ temps.Q2 = TempVarsInit.Q2

C7_Witness ==
    /\ qtCalls = 3
    /\ qtDec # None
    /\ <<qtN, qtT, qtBits>> = <<qtFirst[1], qtFirst[2], qtFirst[3]>>
    /\ qtN = FUnit(<<0, 0, -1>>)
    /\ temps.TMP0 # TempVarsInit.TMP0

(***************************************************************************)
(* The record of one vertex as a function of its own attributes and of the *)
(* bounding box alone: the words the quantizer's loop body computes for    *)
(* position p, normal n, tangent t (handedness h) and UV uv, with a        *)
(* TempVars as created.                                                    *)
(***************************************************************************)
PositionWordsOf(p, bmin, bmax) ==
    << PositionWord(p[1], bmin[1], bmax[1] - bmin[1]),
       PositionWord(p[2], bmin[2], bmax[2] - bmin[2]),
       PositionWord(p[3], bmin[3], bmax[3] - bmin[3]) >>

UvWordsOf(uv) == << UvWord(uv[1]), UvWord(uv[2]) >>

AngleWordsOf(p, n, t, h, uv, bmin, bmax) ==
    PositionWordsOf(p, bmin, bmax)
    \o << encodeTangentAsAngle16(n, t, IF h > 0 THEN 1 ELSE 0) >>
    \o OctWords(n) \o UvWordsOf(uv)

QuatWordsOf(p, n, t, h, uv, bmin, bmax) ==
    PositionWordsOf(p, bmin, bmax)
    \o encodeQuaternion12Bits(n, Vec4(t, IF h > 0 THEN 1 ELSE 0), TempVarsInit)[1]
    \o UvWordsOf(uv)

\* the record of vertex v (counted from 0) under the box bmin, bmax
RecordOf(v, bmin, bmax) ==
    IF format = "angle16bits"
    THEN AngleWordsOf(Vec3At(positions, 3 * v), Vec3At(normals, 3 * v),
                      Vec3At(tangents, 4 * v), tangents[4 * v + 4],
                      << uvs[2 * v + 1], uvs[2 * v + 2] >>, bmin, bmax)
    ELSE QuatWordsOf(Vec3At(positions, 3 * v), Vec3At(normals, 3 * v),
                     Vec3At(tangents, 4 * v), tangents[4 * v + 4],
                     << uvs[2 * v + 1], uvs[2 * v + 2] >>, bmin, bmax)

\* words 8v .. 8v+7 of compressedData
WordsOfVertex(v) == SubSeq(compressedData, 8 * v + 1, 8 * v + 8)

(***************************************************************************)
(* C4: when the bounding box, computed or supplied, has min[a] = max[a] on *)
(* an axis a, the quantizer runs to its end and the word of that axis is 0 *)
(* in the record of every vertex it has written.                           *)
(***************************************************************************)
C4_DegenerateAxisZero ==
    compressedData # None =>
        \A a \in 1..3 :
            positionMin[a] = positionMax[a] =>
                \A v \in 0..(loopI - 1) : compressedData[8 * v + a] = 0

C4_Witness ==
    /\ mPc = "quantized"
    /\ numVertices = 2
    /\ min # None
    /\ positionMin[3] = positionMax[3]
    /\ positions[3] < positionMin[3]
    /\ positions[6] > positionMin[3]

(***************************************************************************)
(* C5: a position component outside the supplied bounding box (on an axis  *)
(* of non-zero range) and a UV component outside [0, 1] are clamped to the *)
(* nearest end of the range: the stored word is 65535 above the range and  *)
(* 0 below it, never a value wrapped modulo 2^16.                          *)
(***************************************************************************)
C5_OutOfRangeClamped ==
    compressedData # None =>
        \A v \in 0..(loopI - 1) :
            /\ min # None =>
                \A a \in 1..3 :
                    /\ (min[a] < max[a] /\ positions[3 * v + a] > max[a])
                          => compressedData[8 * v + a] = 65535
                    /\ (min[a] < max[a] /\ positions[3 * v + a] < min[a])
                          => compressedData[8 * v + a] = 0
            /\ \A c \in 1..2 :
                    /\ uvs[2 * v + c] > 4 => compressedData[8 * v + 6 + c] = 65535
                    /\ uvs[2 * v + c] < 0 => compressedData[8 * v + 6 + c] = 0

(***************************************************************************)
(* C6: with a supplied bounding box, words 8v .. 8v+7 are, once vertex v   *)
(* is written, the record computed from vertex v's own position, normal,   *)
(* tangent and UV and from the box alone, whatever the other vertices are  *)
(* and whatever TempVars held; and a write for one vertex leaves every     *)
(* word of the other vertices as it was (still 0 for those to come).       *)
(***************************************************************************)
C6_VertexWordsIndependent ==
    (min # None /\ compressedData # None) =>
        \A v \in 0..(numVertices - 1) :
            WordsOfVertex(v) = IF v < loopI THEN RecordOf(v, min, max)
                               ELSE Zeros(8)

C6_Witness ==
    /\ mPc = "quantized"
    /\ format = "quaternion12bits"
    /\ min # None
    /\ numVertices = 2
    /\ temps # TempVarsInit
    /\ WordsOfVertex(0) # WordsOfVertex(1)
    /\ Vec3At(normals, 3) = FUnit(<<0, 0, -1>>)

(***************************************************************************)
(* C8: in the angle-sign format the quantizer writes position x, y, z to   *)
(* words 8i+0..8i+2, the tangent word to 8i+3, the octahedral normal to    *)
(* 8i+4..8i+5 and the UV to 8i+6..8i+7, and the attribute pointers set by  *)
(* bind together with standardAngle16BitVertexShader read each field from  *)
(* exactly those words.                                                    *)
(***************************************************************************)
C8_FieldsReadWhereWritten ==
    format = "angle16bits" =>
        /\ \A v \in 1..Len(wroteAt) :
              wroteAt[v] = [ position |-> << 8 * (v - 1), 8 * (v - 1) + 1,
                                             8 * (v - 1) + 2 >>,
                             tangent  |-> << 8 * (v - 1) + 3 >>,
                             normal   |-> << 8 * (v - 1) + 4, 8 * (v - 1) + 5 >>,
                             uv       |-> << 8 * (v - 1) + 6, 8 * (v - 1) + 7 >> ]
        /\ \A v \in 1..Len(readAt) :
              /\ readAt[v] = wroteAt[v]
              /\ vsOut[v].position = SubSeq(WordsOfVertex(v - 1), 1, 3)
              /\ vsOut[v].tangentData = WordsOfVertex(v - 1)[4]
              /\ vsOut[v].normal = octDecode16(SubSeq(WordsOfVertex(v - 1), 5, 6))
              /\ vsOut[v].uv = SubSeq(WordsOfVertex(v - 1), 7, 8)

C8_Witness ==
    /\ format = "angle16bits"
    /\ vsI = 2
    /\ Len(readAt) = 2
    /\ WordsOfVertex(0) # WordsOfVertex(1)
    /\ vsOut[2].tangentData >= 32768

(***************************************************************************)
(* C9: in the angle-sign format the decoder derives the reference          *)
(* bitangent from the same normal as the encoder, so that for every vertex *)
(* the tempVec the vertex shader selects by |normal.x| < 0.9 is the one    *)
(* encodeTangentAsAngle16 selected.                                        *)
(***************************************************************************)
C9_SameTempVec ==
    \A v \in 1..Len(vsOut) :
        vsOut[v].tangent[2] = TempVecOf(Vec3At(normals, 3 * (v - 1)))

\* the n least significant hexadecimal digits of x, least significant first
Nibbles(x, n) == [k \in 1..n |-> (x \div Pow2(4 * (k - 1))) % 16]

(***************************************************************************)
(* C11: for all a, b, c, d in [0, 4095] the words w0, w1, w2 written by    *)
(* store4x12To3x16 are the little-endian 16-bit slices of the 48-bit       *)
(* concatenation: w0 + 2^16 w1 + 2^32 w2 = a + 2^12 b + 2^24 c + 2^36 d,   *)
(* stated digit by digit in base 16 (12 digits on either side).            *)
(***************************************************************************)
C11_LittleEndianSlices ==
    (pkPc = "stored" /\ pkIn # None /\ \A k \in 1..4 : pkIn[k] \in 0..4095) =>
        /\ \A w \in 1..3 : pkWords[w] \in 0..65535
        /\ Nibbles(pkWords[1], 4) \o Nibbles(pkWords[2], 4) \o Nibbles(pkWords[3], 4)
           = Nibbles(pkIn[1], 3) \o Nibbles(pkIn[2], 3)
             \o Nibbles(pkIn[3], 3) \o Nibbles(pkIn[4], 3)

C11_Witness ==
    /\ pkPc = "stored"
    /\ pkIn = <<2048, 4095, 1, 512>>
    /\ pkWords = <<63488, 511, 8192>>

(***************************************************************************)
(* C20: store4x12To3x16 and store4x8To2x16 confine every input to its own  *)
(* field: for arbitrary non-negative integer inputs every output word is   *)
(* in [0, 65535] and unpacking returns each input modulo 2^bits, so a      *)
(* value wider than its field leaves the neighbouring fields alone.        *)
(***************************************************************************)
C20_FieldsConfined ==
    (pkIn # None /\ pkPc \in {"stored", "stored8"}) =>
        /\ \A w \in 1..Len(pkWords) : pkWords[w] \in 0..65535
        /\ pkHost # None =>
              \A k \in 1..4 :
                  pkHost[k] = pkIn[k] % (IF pkPc = "stored" THEN 4096 ELSE 256)

C20_Witness ==
    /\ pkPc = "stored8"
    /\ pkHost = <<255, 0, 0, 1>>
    /\ pkIn = <<65535, 0, 256, 1>>

(***************************************************************************)
(* C12: the angle-sign word equals (signBit << 15) | angleBits, where      *)
(* signBit is 1 exactly when the handedness argument is > 0 and angleBits  *)
(* is in [0, 32767]: the quantized angle never sets bit 15 and the         *)
(* handedness never changes bits 0-14.                                     *)
(***************************************************************************)
C12_SignBitAndAngleBits ==
    agPc = "encoded" =>
        /\ agWord \in 0..65535
        /\ agWord \div 32768 = (IF agSign > 0 THEN 1 ELSE 0)
        /\ \A h \in Handedness :
              encodeTangentAsAngle16(agNormal, agTangent, h) % 32768
                  = agWord % 32768

C12_Witness ==
    /\ agPc = "encoded"
    /\ agSign = 0
    /\ agWord = 28671

(***************************************************************************)
(* The sine and cosine of a fixed-point x in [-PI, PI] by their Taylor     *)
(* series up to x^23 and x^22 (remainder below 1e-9), in Horner form:      *)
(* T(n) = 1 - x^2 / (n (n + 1)) * T(n + 2), sin x = x T(2), cos x = T(1).  *)
(***************************************************************************)
RECURSIVE SeriesTail(_, _)
SeriesTail(x2, n) ==
    IF n > 22 THEN ONE
    ELSE ONE - RoundHalfUp(SMul(x2, SeriesTail(x2, n + 2)), n * (n + 1))

Sine(x) == SMul(x, SeriesTail(SMul(x, x), 2))
Cosine(x) == SeriesTail(SMul(x, x), 1)

(***************************************************************************)
(* C13: for every x in [-pi, pi], fastSin(x) differs from sin(x) by less   *)
(* than 0.001, and fastCos(x), computed as fastSin(x + pi/2), differs from *)
(* cos(x) by less than 0.001.                                              *)
(***************************************************************************)
C13_FastTrigWithin001 ==
    /\ trSin # None => Abs(trSin[1] - Sine(trX)) * 1000 < ONE
    /\ trCos # None => Abs(trCos[1] - Cosine(trX)) * 1000 < ONE

\* <<hi, lo>> = hi * ONE + lo multiplied by m, for 0 <= m < 1024
PairTimes(p, m) == << p[1] * m + (p[2] * m) \div ONE, (p[2] * m) % ONE >>

PairLess(p, q) == p[1] < q[1] \/ (p[1] = q[1] /\ p[2] < q[2])

\* whether c = n x d is short enough for the angle between n and d to be
\* below half a degree: |c|^2 * 13132 < |n|^2 |d|^2, 1 / 13132 being just
\* below sin^2(0.5 deg) = 1 / 13131.6.  A component of c above 1500 is already
\* too long for |n|^2 <= 48 and |d| <= 32770.
ShortCross(c, n2, d2) ==
    /\ \A i \in 1..3 : Abs(c[i]) <= 2000
    /\ PairLess(TMul(Dot(c, c), 13132), PairTimes(<<d2 \div ONE, d2 % ONE>>, n2))

\* the angle between the directions n and d is below 0.5 degrees
WithinHalfDegree(n, d) ==
    /\ Dot(n, d) > 0
    /\ ShortCross(Cross(n, d), Dot(n, n), Dot(d, d))

(***************************************************************************)
(* C14: for every unit vector n, octahedral decode applied to the two      *)
(* 16-bit words of the octahedral encoding of n returns a unit vector (the *)
(* normalization of a non-zero vector) whose angle to n is below 0.5       *)
(* degrees.                                                                *)
(***************************************************************************)
C14_OctRoundTripWithinHalfDegree ==
    (ocN # None /\ ocOut # None) =>
        /\ ocOut.n # <<0, 0, 0>>
        /\ WithinHalfDegree(ocN, ocOut.n)

C14_Witness ==
    /\ ocN = <<-1, 2, -3>>
    /\ ocOut # None
    /\ ocOut.n # <<0, 0, 0>>
    /\ ocOut.n[3] < 0

(***************************************************************************)
(* C18: each of the two normal words written by the quantizer equals       *)
(* round((v * 0.5 + 0.5) * 65535), rounded to nearest, for the folded      *)
(* octahedral coordinate v in [-1, 1], and therefore lies in [0, 65535].   *)
(* With v = num / l1: (v * 0.5 + 0.5) * 65535 = (num + l1) * 65535 / (2 l1)*)
(***************************************************************************)
C18_NormalWordsRounded ==
    (ocN # None /\ ocPc = "stored") =>
        LET l1 == Abs(ocN[1]) + Abs(ocN[2]) + Abs(ocN[3])
            v  == OctFold(ocN[1], ocN[2], ocN[3], l1)
        IN  \A k \in 1..2 :
                /\ ocWords[k] = RoundHalfUp((v[k] + l1) * 65535, 2 * l1)
                /\ ocWords[k] \in 0..65535

(***************************************************************************)
(* C19: octahedral decode maps a stored word w back to the coordinate      *)
(* 2 w / 65535 - 1, the exact inverse of the encode scale: word 0 maps to  *)
(* -1, word 65535 maps to +1, and every decoded coordinate lies in [-1, 1] *)
(* before z is reconstructed.  The coordinate is ocOut.f / 32767.          *)
(***************************************************************************)
C19_DecodeInvertsEncodeScale ==
    ocOut # None =>
        \A k \in 1..2 :
            /\ ocOut.f[k] * 65535 = (2 * ocWords[k] - 65535) * 32767
            /\ ocOut.f[k] >= -32767
            /\ ocOut.f[k] <= 32767

\* the w component the decoder unquantizes from the words of a bits-wide
\* encoding, before it normalizes the quaternion
UnquantizedW(words, bits) ==
    IF bits = 12
    THEN Unquantized12(load4x12From3x16(words[1], words[2], words[3]))[4]
    ELSE IF bits = 16
         THEN unquantizeSignedFloat(words[4], 16)
         ELSE Unquantized8(load4x8From2x16(words[1], words[2]))[4]

C16_UnitLength ==
    qtCalls > 0 => Abs(QLen2(temps.qTangent) - ONE) <= 8

(***************************************************************************)
(* C17: for every quaternion q, decodeQTangent(q) and decodeQTangent(-q)   *)
(* return the same normal and the same tangent x, y, z; only the           *)
(* handedness component of the tangent differs (it is opposite whenever    *)
(* q.w is not 0).                                                          *)
(***************************************************************************)
C17_NegationKeepsFrame ==
    (dqPos # None /\ dqNeg # None) =>
        /\ dqPos[1] = dqNeg[1]
        /\ SubSeq(dqPos[2], 1, 3) = SubSeq(dqNeg[2], 1, 3)
        /\ dqQ[4] # 0 => dqPos[2][4] = -dqNeg[2][4]

C17_Witness ==
    /\ dqPos # None
    /\ dqNeg # None
    /\ dqQ = <<-445339, 184465, -356359, 860329>>
    /\ dqPos[2][4] = 1
    /\ dqNeg[2][4] = -1
    /\ dqPos[1] # <<0, 0, ONE>>

(***************************************************************************)
(* C21: for any normal, any tangent and originalSign in {+1, -1}, the sign *)
(* returned by decodeTangentOriginal and by decodeTangentOptimized for the *)
(* word encodeTangent(normal, tangent, originalSign) is strictly equal to  *)
(* originalSign: the 'Sign preserved' comparisons of lines 176 and 183     *)
(* are true.                                                               *)
(***************************************************************************)
C21_SignPreservedLogged ==
    /\ teDecoded # None => teSign = teDecoded[1]
    /\ teOptimized # None => teSign = teOptimized[1]

Assembled(a, resolution, n) ==
    [k \in 1..(6 * n) |->
        IF a = "indices" THEN FaceIndices((k - 1) \div n, resolution)[((k - 1) % n) + 1]
        ELSE <<a, (k - 1) \div n, ((k - 1) % n) + 1>>]

(***************************************************************************)
(* C25: in the parallel rounded-box build, the six face workers' results   *)
(* are copied into pairwise disjoint slices of the shared output arrays:   *)
(* face f owns packed words [f*V*8, (f+1)*V*8) and indices [f*I, (f+1)*I), *)
(* so the final vertex data and index data are the same for every order in *)
(* which the worker messages arrive.                                       *)
(***************************************************************************)
C25_DisjointSlices ==
    gmShape = "roundedBox" =>
        /\ \A s \in gmWrote, t \in gmWrote :
              (s # t /\ s.array = t.array) => (s.to <= t.from \/ t.to <= s.from)
        /\ \A s \in gmWrote :
              /\ s.array = "quantizedData" =>
                    /\ s.from = s.face * NumVerticesPerFace(gmRes) * 8
                    /\ s.to = (s.face + 1) * NumVerticesPerFace(gmRes) * 8
              /\ s.array = "indices" =>
                    /\ s.from = s.face * NumIndicesPerFace(gmRes)
                    /\ s.to = (s.face + 1) * NumIndicesPerFace(gmRes)
        /\ gmPromise = "resolved" =>
              /\ gmMesh.indices =
                    Assembled("indices", gmRes, NumIndicesPerFace(gmRes))
              /\ gmQuantize =>
                    gmMesh.quantizedData =
                        Assembled("q", gmRes, NumVerticesPerFace(gmRes) * 8)
              /\ ~gmQuantize =>
                    /\ gmMesh.positions =
                          Assembled("p", gmRes, NumVerticesPerFace(gmRes) * 3)
                    /\ gmMesh.tangents =
                          Assembled("t", gmRes, NumVerticesPerFace(gmRes) * 4)

C25_Witness ==
    /\ gmShape = "roundedBox"
    /\ ~gmMobile
    /\ gmQuantize
    /\ gmRes = 2
    /\ gmPromise = "resolved"
    /\ Cardinality(gmWrote) = 12
    /\ gmMesh.quantizedData[129] = <<"q", 1, 1>>
    /\ gmMesh.indices[25] = 16

(***************************************************************************)
(* C29: the promise returned by generateMesh eventually settles (resolves  *)
(* or rejects) for every shape, including when a worker raises an error    *)
(* event instead of posting a result: once no worker is left that can      *)
(* still reply, the promise is not pending.                                *)
(***************************************************************************)
C29_PromiseSettles ==
    (gmPc = "waiting" /\ \A f \in Faces : gmWorker[f] # "posted") =>
        gmPromise # "pending"

(***************************************************************************)
(* C30: in PerformanceMonitor, for every frame bracketed as beginFrame,    *)
(* any number of saveMeasure calls, endFrame, the timer-query begin and    *)
(* end calls strictly alternate (endQuery is issued only while a query is  *)
(* begun, beginQuery only while none is), including when all pooled        *)
(* queries are still active, and a pooled query is never begun again       *)
(* before checkQueryResults has marked it inactive.                        *)
(***************************************************************************)
C30_QueriesAlternate == glErrors = {}

(***************************************************************************)
(* Claims about the render loop and the mesh build                         *)
(***************************************************************************)

\* the format the data of a GPU mesh was generated with
GeneratedFormat(mesh) == mesh.generated.quantizationFormat

\* C23: whenever a draw is issued, the kind of GPU mesh bound, the program
\* used and meshState.lastQuantizationFormat all correspond to the format
\* the mesh data was generated with, whatever the UI changed during a build.
C23_DrawMatchesGeneratedFormat ==
    drawn # None =>
        /\ drawn.useQuantizedMesh = (GeneratedFormat(drawn.mesh) # "none")
        /\ drawn.program = GeneratedFormat(drawn.mesh)
        /\ drawn.lastQuantizationFormat = GeneratedFormat(drawn.mesh)

\* C26: at most one mesh build is in flight: generateMesh is never called
\* while the promise of an earlier call is still pending.
C26_OneBuildInFlight == Len(builds) <= 1

\* a build is pending while the parameters ask for a different mesh
C26_Witness ==
    /\ Len(builds) = 1
    /\ meshState.isBuildingMesh
    /\ BuildArgs(params) # builds[1].args
    /\ rafScheduled
    /\ ~params.isPaused

\* C27: once the parameters have stopped changing, rendering is not paused
\* and every worker has replied, the mesh that is drawn was generated from
\* exactly the current parameters: when the loop runs, no build is pending
\* and none is needed, the next frame draws such a mesh.
C27_SettlesOnCurrentParams ==
    ( /\ params # None
      /\ rafScheduled
      /\ ~params.isPaused
      /\ builds = <<>>
      /\ ~meshState.isBuildingMesh
      /\ ~needToBuildMesh(meshState, params) )
    => /\ Drawing(meshState, params).thrown = Null
       /\ Drawing(meshState, params).mesh.generated = BuildArgs(params)

\* C28: every build that starts sets isBuildingMesh back to false, also
\* when the generation rejects or the construction of the GPU mesh throws:
\* no promise pending means the flag is down.
C28_FlagClearedAfterBuild ==
    (meshState # None /\ builds = <<>>) => ~meshState.isBuildingMesh

====
